---- MODULE Spec2Model ----
(***************************************************************************)
(* KodoTerm: the terminal session (scrollback store, absolute addressing,  *)
(* selection) of src/src/KodoTermSession.cpp and the pty backends of       *)
(* src/src/PtyProcess_unix.cpp and src/src/PtyProcess_win.cpp.             *)
(***************************************************************************)
EXTENDS Integers, Sequences, FiniteSets, TLC

\* ------------------------------------------------------------------ bounds
\* Largest row count a resize asks for.
MaxRows == 2
\* Largest column count a resize asks for.
MaxCols == 2
\* Largest maxScrollback a configuration carries.
MaxCap == 2
\* Lines of output the engine is fed (each scrolls the screen by one row).
MaxLines == 3
\* Resizes that change the geometry, in one run.
MaxResizes == 2
\* Bytes a child writes to its terminal.
MaxBytes == 2
MaxTimers == 2
MaxLogs == 2
MaxName == 3
MaxStream == 2
MaxFrags == 2
\* Lines the child scrolls out of a view that is being painted.
MaxScrolls == 1

VARIABLES
    maxScrollback,   \* m_config.maxScrollback
    m_scrollback,    \* std::deque<SavedLine>, front first
    m_rows,          \* m_rows
    m_cols,          \* m_cols
    m_altScreen,     \* m_altScreen
    screen,          \* the engine's live screen: m_rows lines of m_cols cells
    cellsIn,         \* the line buffer of the last sb_pushline / sb_popline call, as handed over
    cells,           \* that buffer as the call left it
    ret,             \* value that call returned
    serial,          \* number of the next line of output the engine is fed
    resizes,         \* resizes that changed the geometry so far
    pushLog,         \* lines stored by pushScrollback since the store was last emptied
    pushOnly,        \* TRUE while only pushes touched the store since then
    m_selectionStart,
    m_selectionEnd,
    op,              \* the handler that ran last
    arg,             \* the arguments start or resizeTerminal was called with, if it ran last
    ptyObjects,      \* PtyProcess objects in existence
    ptySize,         \* the window size the pty of the current PtyProcess was last given
    m_mouseMode,     \* m_mouseMode: 0, or the mouse-reporting mode the engine signalled
    m_cursorRow,
    m_cursorCol,
    m_cursorVisible,
    m_cursorBlink,
    m_cursorShape,
    mouseCalls,      \* the engine calls sendMouse / sendMouseMove made, if one ran last
    emitted,         \* the change notifications the last handler emitted, in order
    m_restoring,     \* m_restoring
    m_suppressSignals,
    m_pendingLogReplay,  \* a log to restore is set (m_pendingLogReplay is not empty)
    m_replayFile,    \* chunks left in the open replay file, NoFile with none open
    backend,         \* "unix" (PtyProcessUnix) or "win" (PtyProcessWin), fixed by the build
    m_pty,           \* the session's PtyProcess: "null", "idle" (created, no child) or "started"
    child,           \* the child process: "none", "alive", "exit0", "exit1" or "signaled"
    pipe,            \* bytes the child wrote that the pty has not handed out yet
    written,         \* number of bytes the child wrote so far
    m_pid,           \* PtyProcessUnix::m_pid
    m_masterFd,      \* PtyProcessUnix::m_masterFd
    m_notifier,      \* PtyProcessUnix::m_notifier: "none", "enabled" or "disabled"
    m_hPC,           \* PtyProcessWin::m_hPC is a valid handle
    m_hPipeIn,       \* PtyProcessWin::m_hPipeIn is a valid handle
    m_hPipeOut,      \* PtyProcessWin::m_hPipeOut is a valid handle
    m_hProcess,      \* PtyProcessWin::m_pi.hProcess is set
    m_readerThread,  \* PtyProcessWin::m_readerThread: "none", "running" or "done"
    queue,           \* onReadThreadData invocations posted to the main loop
    m_running,       \* ReaderThread::m_running (TRUE while there is no thread object)
    readPc,          \* where a running reader thread is: "test" (the while) or "blocked" (in ReadFile)
    killPc,          \* where PtyProcessWin::kill() is, "idle" outside it
    events,          \* signals the current PtyProcess emitted, in order
    eof,             \* its reader met end-of-file or a read error
    lostFinished,    \* a started PtyProcess was deleted before it emitted finished
    replayTimer,     \* pending QTimer::singleShot calls of processLogReplay
    fed,             \* where the engine's input came from since the last replay began
    m_cwd,           \* m_cwd
    m_oscBuffer,     \* m_oscBuffer: the fragments of the OSC string under way
    enableLogging,   \* m_config.enableLogging
    logFiles,        \* the log files written so far, each a sequence of tokens
    m_logFile,       \* index in logFiles of the file m_logFile has open, 0 with none open
    logOwner,        \* TRUE while the open log was opened by the start of the current run
    rtName,          \* round trip: the program name of the logged session
    rtStream,        \* round trip: the bytes its child produced
    rtFile,          \* round trip: the log file written from them
    rtFed,           \* round trip: what replaying that file writes to the engine
    attached,        \* a KodoQuickTerm item with its renderer is connected to the session
    m_scrollValue,   \* KodoQuickTerm::m_scrollValue
    rendRows,        \* KodoTermRenderer::m_rows
    rendCols,        \* KodoTermRenderer::m_cols
    m_dirty,         \* KodoTermRenderer::m_dirty
    m_dirtyRect,     \* KodoTermRenderer::m_dirtyRect
    m_cellCache,     \* KodoTermRenderer::m_cellCache, row by row
    m_selectedCache, \* KodoTermRenderer::m_selectedCache
    m_backBuffer,    \* what each cell of m_backBuffer shows, <<>> for a null image
    draws,           \* draw operations of the last renderToBackbuffer call
    noted            \* rectangles noted as damage since the dirty rectangle was last empty

vars == <<maxScrollback, m_scrollback, m_rows, m_cols, m_altScreen, screen, cellsIn,
          cells, ret, serial, resizes, pushLog, pushOnly,
          m_selectionStart, m_selectionEnd, op, arg, ptyObjects, ptySize,
          m_mouseMode, m_cursorRow, m_cursorCol, m_cursorVisible, m_cursorBlink,
          m_cursorShape, mouseCalls, emitted, m_restoring, m_suppressSignals,
          m_pendingLogReplay, m_replayFile,
          backend, m_pty, child, pipe, written, m_pid, m_masterFd, m_notifier, m_hPC,
          m_hPipeIn, m_hPipeOut, m_hProcess, m_readerThread, queue, m_running, readPc, killPc,
          events, eof, lostFinished,
          replayTimer, fed, m_cwd, m_oscBuffer, enableLogging, logFiles, m_logFile, logOwner,
          rtName, rtStream, rtFile, rtFed,
          attached, m_scrollValue, rendRows, rendCols, m_dirty, m_dirtyRect, m_cellCache,
          m_selectedCache, m_backBuffer, draws, noted>>

sessionVars == <<maxScrollback, m_scrollback, m_rows, m_cols, m_altScreen, screen,
                 cellsIn, cells, ret, serial, resizes, pushLog, pushOnly>>
selVars == <<m_selectionStart, m_selectionEnd>>
cursorPos == <<m_cursorRow, m_cursorCol>>
cursorProps == <<m_cursorVisible, m_cursorBlink, m_cursorShape>>
cursorVars == <<cursorPos, cursorProps>>
replayVars == <<m_restoring, m_suppressSignals, m_pendingLogReplay, m_replayFile>>
termState == <<maxScrollback, m_scrollback, m_rows, m_cols, m_altScreen, screen>>
unixVars == <<m_pid, m_masterFd, m_notifier>>
threadVars == <<m_running, readPc, killPc>>
winVars == <<m_hPC, m_hPipeIn, m_hPipeOut, m_hProcess, m_readerThread, queue, threadVars>>
cwdVars == <<m_cwd, m_oscBuffer>>
logVars == <<enableLogging, logFiles, m_logFile, logOwner>>
rtVars == <<rtName, rtStream, rtFile, rtFed>>
hostVars == <<replayTimer, fed, cwdVars, logVars, rtVars>>
rendererVars == <<rendRows, rendCols, m_dirty, m_dirtyRect, m_cellCache, m_selectedCache,
                  m_backBuffer, draws, noted>>
renderVars == <<attached, m_scrollValue, rendererVars>>
ptyVars == <<backend, m_pty, child, pipe, written, unixVars, winVars, events, eof,
             lostFinished, ptyObjects>>

\* ------------------------------------------------------------------- cells
Min(a, b) == IF a < b THEN a ELSE b
Max(a, b) == IF a > b THEN a ELSE b

\* Code points of line n, column c: distinct for every (n, c), n >= 1.
CodeOf(n, c) == n * 16 + c
\* A combining mark sharing a cell with its base character.
CombiningMark == CodeOf(0, 1)
\* The line break selectedText inserts between rows ('\n').
NL == 10

\* SavedCell / VTermScreenCell: chars up to the first 0, attrs, fg, bg, width.
MkCell(ch, a, w) == [chars |-> ch, attrs |-> a, fg |-> a + 1, bg |-> a + 2, width |-> w]
\* memset(&cell, 0, ...); cell.width = 1  -- also the cell of an erased screen.
BlankCell == MkCell(<<>>, 0, 1)
\* What an uninitialised or out-of-bounds read may produce.
Garbage == {MkCell(<<CodeOf(0, 2)>>, 0, 1), MkCell(<<CodeOf(0, 2)>>, 0, 2), BlankCell}

\* Line n of the child's output, cols cells wide. Kind "wide" starts with a
\* double-width character carrying a combining mark, followed by its trailing half.
NewLine(n, kind, cols) ==
    [c \in 1..cols |->
        IF kind = "wide" /\ cols >= 2 /\ c = 1 THEN MkCell(<<CodeOf(n, 0), CombiningMark>>, n % 2, 2)
        ELSE IF kind = "wide" /\ cols >= 2 /\ c = 2 THEN MkCell(<<>>, n % 2, 0)
        ELSE MkCell(<<CodeOf(n, c - 1)>>, n % 2, 1)]
BlankLine(cols) == [c \in 1..cols |-> BlankCell]
\* What the engine's line buffer may hold when it is handed to sb_popline.
StaleLine(cols) == [c \in 1..cols |-> MkCell(<<CodeOf(0, 3)>>, 0, 1)]
EngineBuffers(cols) == {BlankLine(cols), StaleLine(cols)}
BlankScreen(rows, cols) == [r \in 1..rows |-> BlankLine(cols)]
Kinds == {"text", "wide"}

NoPoint == [x |-> -1, y |-> -1]

\* ------------------------------------------------------- scrollback store
\* Mutants of PushStore: no eviction at all; eviction at the tail instead of the
\* head; the alternate-screen test dropped.
PushStoreNoEvict(sb, cols, line, alt, cap) ==
    IF alt THEN sb ELSE Append(sb, [i \in 1..cols |-> line[i]])
PushStoreEvictTail(sb, cols, line, alt, cap) ==
    IF alt THEN sb
    ELSE LET grown == Append(sb, [i \in 1..cols |-> line[i]])
         IN IF Len(grown) > cap THEN SubSeq(grown, 1, Len(grown) - 1) ELSE grown
PushStoreAnyScreen(sb, cols, line, alt, cap) ==
    LET grown == Append(sb, [i \in 1..cols |-> line[i]])
    IN IF Len(grown) > cap THEN Tail(grown) ELSE grown

\* pushScrollback, the store it leaves: nothing on the alternate screen; else the
\* first cols cells appended at the tail and one line dropped at the head when the
\* size exceeds maxScrollback.
PushStore(sb, cols, line, alt, cap) ==
    IF alt THEN sb
    ELSE LET saved == [i \in 1..cols |-> line[i]]
             grown == Append(sb, saved)
         IN IF Len(grown) > cap THEN Tail(grown) ELSE grown
\* pushScrollback, its return value.
PushRet(alt) == IF alt THEN 0 ELSE 1

\* popScrollback, the store it leaves.
PopStore(sb) == IF sb = <<>> THEN sb ELSE SubSeq(sb, 1, Len(sb) - 1)
\* Mutant of PopCells: a blank line written out when the store is empty.
PopCellsBlankFill(sb, cols, buf) ==
    LET line == IF sb = <<>> THEN <<>> ELSE sb[Len(sb)]
        n == Min(cols, Len(line))
    IN [i \in 1..cols |-> IF i <= n THEN line[i] ELSE BlankCell]

\* popScrollback, the cells buffer it leaves: untouched when the store is empty,
\* else the tail line copied and padded with blank cells up to cols.
\* Mutant of PopCells: the oldest line handed back instead of the newest.
PopCellsOldest(sb, cols, buf) ==
    IF sb = <<>> THEN buf
    ELSE [i \in 1..cols |-> IF i <= Min(cols, Len(sb[1])) THEN sb[1][i] ELSE BlankCell]

PopCells(sb, cols, buf) ==
    IF sb = <<>> THEN buf
    ELSE LET line == sb[Len(sb)]
             n == Min(cols, Len(line))
         IN [i \in 1..cols |-> IF i <= n THEN line[i] ELSE BlankCell]
PopRet(sb) == IF sb = <<>> THEN 0 ELSE 1

\* The ghost log of stored lines: extended by a push on the primary screen.
LogPush(log, cols, line, alt) ==
    IF alt THEN log ELSE Append(log, [i \in 1..cols |-> line[i]])

\* ---------------------------------------------------- absolute addressing
\* Mutant of getCell: the history/live boundary off by one (row <= sb).
getCellOffByOne(row, col, g) ==
    LET sb == Len(m_scrollback) IN
    IF row <= sb /\ sb > 0
    THEN IF row < 0
         THEN [found |-> FALSE, cell |-> BlankCell, ub |-> "none"]
         ELSE LET l == m_scrollback[Min(row + 1, sb)] IN
              IF col < Len(l)
              THEN IF col >= 0
                   THEN [found |-> TRUE, cell |-> l[col + 1], ub |-> "none"]
                   ELSE [found |-> TRUE, cell |-> g, ub |-> "oob"]
              ELSE [found |-> TRUE, cell |-> BlankCell, ub |-> "none"]
    ELSE LET r == row - sb IN
         IF r >= 0 /\ r < m_rows
         THEN IF col >= 0 /\ col < m_cols
              THEN [found |-> TRUE, cell |-> screen[r + 1][col + 1], ub |-> "none"]
              ELSE [found |-> TRUE, cell |-> g, ub |-> "uninit"]
         ELSE [found |-> FALSE, cell |-> BlankCell, ub |-> "none"]

\* getCell(row, col, cell): found, the cell, and what the read did - "none", or
\* "oob" for l[col] with col < 0 (a read before the saved line's storage), or
\* "uninit" for a live row whose column the engine rejects (vterm_screen_get_cell
\* returns 0, unchecked, and the local vcell is copied out as it is). g is what
\* such a read yields. A request that is not found leaves the caller's cell alone;
\* the caller substitutes a blank one.
getCell(row, col, g) ==
    LET sb == Len(m_scrollback) IN
    IF row < sb
    THEN IF row < 0
         THEN [found |-> FALSE, cell |-> BlankCell, ub |-> "none"]
         ELSE LET l == m_scrollback[row + 1] IN
              IF col < Len(l)
              THEN IF col >= 0
                   THEN [found |-> TRUE, cell |-> l[col + 1], ub |-> "none"]
                   ELSE [found |-> TRUE, cell |-> g, ub |-> "oob"]
              ELSE [found |-> TRUE, cell |-> BlankCell, ub |-> "none"]
    ELSE LET r == row - sb IN
         IF r >= 0 /\ r < m_rows
         THEN IF col >= 0 /\ col < m_cols
              THEN [found |-> TRUE, cell |-> screen[r + 1][col + 1], ub |-> "none"]
              ELSE [found |-> TRUE, cell |-> g, ub |-> "uninit"]
         ELSE [found |-> FALSE, cell |-> BlankCell, ub |-> "none"]

\* --------------------------------------------------------------- selection
\* Mutant of SelOrder: endpoints compared by row only.
SelOrderRowsOnly(s, e) ==
    IF s.y > e.y THEN [s |-> e, e |-> s] ELSE [s |-> s, e |-> e]

\* The endpoints in reading order: swapped when start lies after end, comparing
\* the row, then the column (QPoint: y is the absolute row, x the column).
SelOrder(s, e) ==
    IF s.y > e.y \/ (s.y = e.y /\ s.x > e.x)
    THEN [s |-> e, e |-> s] ELSE [s |-> s, e |-> e]

\* isSelected(row, col) for the selection start..end.
IsSelectedFor(start, end, row, col) ==
    IF start.x = -1 \/ end.x = -1 THEN FALSE
    ELSE LET n == SelOrder(start, end) IN
         IF row < n.s.y \/ row > n.e.y THEN FALSE
         ELSE IF row = n.s.y /\ row = n.e.y THEN col >= n.s.x /\ col <= n.e.x
         ELSE IF row = n.s.y THEN col >= n.s.x
         ELSE IF row = n.e.y THEN col <= n.e.x
         ELSE TRUE
isSelected(row, col) == IsSelectedFor(m_selectionStart, m_selectionEnd, row, col)

\* The inner loop of selectedText: the code points of row r from column c to
\* endCol, a cell wider than one column skipping the columns it covers.
RECURSIVE RowText(_, _, _, _)
RowText(r, c, endCol, g) ==
    IF c > endCol THEN <<>>
    ELSE LET res == getCell(r, c, g) IN
         IF res.found
         THEN res.cell.chars \o
              RowText(r, c + (IF res.cell.width > 1 THEN res.cell.width ELSE 1), endCol, g)
         ELSE RowText(r, c + 1, endCol, g)
\* The outer loop: rows r..e.y, a line break after every row but the last.
RECURSIVE RowsText(_, _, _, _)
RowsText(r, s, e, g) ==
    IF r > e.y THEN <<>>
    ELSE RowText(r, IF r = s.y THEN s.x ELSE 0, IF r = e.y THEN e.x ELSE m_cols - 1, g)
         \o (IF r < e.y THEN <<NL>> ELSE <<>>)
         \o RowsText(r + 1, s, e, g)
\* selectedText() for the selection start..end.
SelectedTextFor(start, end, g) ==
    IF start.x = -1 \/ end.x = -1 THEN <<>>
    ELSE LET n == SelOrder(start, end) IN RowsText(n.s.y, n.s, n.e, g)
selectedText(g) == SelectedTextFor(m_selectionStart, m_selectionEnd, g)

\* --------------------------------------------------------------------- pty
Backends == {"unix", "win"}
Programs == {"", "sh"}
Spawns == {"ok", "nopty", "noexec"}
\* char buffer[4096]: the most one read hands out.
BufSize == 4096
\* A signal of PtyProcess: readyRead(data) or finished(exitCode, exitStatus).
ReadyRead(data) == [sig |-> "readyRead", data |-> data, exitCode |-> 0, exitStatus |-> 0]
Finished(code, status) ==
    [sig |-> "finished", data |-> <<>>, exitCode |-> code, exitStatus |-> status]
NumFinished(evs) == Cardinality({i \in 1..Len(evs) : evs[i].sig = "finished"})
\* One read of the pty: what is there, up to the buffer size.
ReadChunk(p) == SubSeq(p, 1, Min(Len(p), BufSize))
\* Mutant of ReadRest: the bytes read stay in the pty.
ReadRestKeep(p) == p
ReadRest(p) == SubSeq(p, Min(Len(p), BufSize) + 1, Len(p))
\* onPtyReadyRead: every non-empty readyRead chunk goes to vterm_input_write, in
\* the order of the signals; this is the input the VT engine was fed.
RECURSIVE VtInput(_)
VtInput(evs) ==
    IF evs = <<>> THEN <<>>
    ELSE (IF Head(evs).sig = "readyRead" THEN Head(evs).data ELSE <<>>) \o VtInput(Tail(evs))
\* The chunks of posted invocations, end to end.
RECURSIVE Flatten(_)
Flatten(q) == IF q = <<>> THEN <<>> ELSE Head(q) \o Flatten(Tail(q))
\* Mutant of ReadFileReturns: closing the pseudo console or the read handle does
\* not end a pending read.
ReadFileNeedsBytes(p, pcOpen, inOpen, ch) == p /= <<>> \/ ch \notin {"none", "alive"}
\* A blocking ReadFile on the pty's output pipe returns once there are bytes or the
\* pipe is broken: the pseudo console closed, the read handle closed, the child gone.
ReadFileReturns(p, pcOpen, inOpen, ch) ==
    p /= <<>> \/ ~pcOpen \/ ~inOpen \/ ch \notin {"none", "alive"}
\* It returns bytes when there are some and the handle is still valid.
ReadFileGivesBytes(p, inOpen) == p /= <<>> /\ inOpen
\* PtyProcess::start with a program set. forkpty fails only without a pty; an
\* exec that fails does so in the forked child, after start returned true.
\* CreatePipe fails without a pipe, CreateProcessW without an executable.
StartReturns(b, spawn) == IF b = "unix" THEN spawn /= "nopty" ELSE spawn = "ok"

\* No replay file is open.
NoFile == -1
\* KodoTerm::updateTerminalSize schedules a replay with `cols > 40`; the model's
\* screens are narrower, and the threshold is scaled to their widths.
MinReplayCols == 1
\* The tokens of a log file: pieces of text, LF for the newline character.
LF == "\n"
\* The header start() writes to a new log: the text before the program name, the
\* name, the end of its line and the sentinel line.
LogHeader(name) ==
    <<"-- KodoTerm Session Log --", LF, "Program: ">> \o name \o <<LF, "LOG_START_MARKER", LF>>
\* processLogReplay gives up looking for the sentinel once it has read more than
\* 1024 bytes; counted in tokens, and scaled to the model's names.
HeaderLimit == 7
\* read(65536), in tokens.
ChunkSize == 2
\* The log of a session: the header, then every readyRead chunk as it came.
WriteLog(name, stream) == LogHeader(name) \o stream
\* The header loop of processLogReplay: tokens are read one by one into `header`
\* until the one just read is a newline and header ends with the sentinel and a
\* newline, or header holds more than HeaderLimit, or the file ends. The value is
\* the number of tokens read.
RECURSIVE SkipHeader(_, _)
SkipHeader(file, n) ==
    IF n >= Len(file) THEN n
    ELSE IF file[n + 1] = LF /\ n >= 1 /\ file[n] = "LOG_START_MARKER" THEN n + 1
    ELSE IF n + 1 > HeaderLimit THEN n + 1
    ELSE SkipHeader(file, n + 1)
\* The chunks processLogReplay reads and writes to the engine, call after call,
\* until a read returns nothing.
RECURSIVE ReadChunks(_)
ReadChunks(rest) ==
    IF rest = <<>> THEN <<>>
    ELSE SubSeq(rest, 1, Min(ChunkSize, Len(rest)))
         \o ReadChunks(SubSeq(rest, Min(ChunkSize, Len(rest)) + 1, Len(rest)))
\* What a replay of the file writes to the engine.
Replayed(file) == ReadChunks(SubSeq(file, SkipHeader(file, 0) + 1, Len(file)))
\* Program names and recorded streams, in tokens.
SeqsUpTo(T, n) == UNION {[1..k -> T] : k \in 0..n}
Names == SeqsUpTo({"sh", "LOG_START_MARKER"}, MaxName)
Streams == SeqsUpTo({"a", LF}, MaxStream)
\* The pieces OSC strings come in: the scheme and host of a file URL, two
\* directory names, and text that is no path.
OscPieces == {"file://h", "/a", "/b", "x"}
\* onOsc, final fragment of OSC 7: does the buffered string name a directory, and
\* which. A string that starts with file:// gives the path of the URL, one that
\* starts with a slash is taken as it is, any other is ignored.
OscResolves(buf) == buf /= <<>> /\ buf[1] /= "x"
OscPath(buf) == IF buf[1] = "file://h" THEN Tail(buf) ELSE buf
\* The fields a log header records.
HeaderFields(file) == {"Program: ", "Arguments: ", "CWD: "} \cap {file[i] : i \in 1..Len(file)}
\* resetDirtyRect()
Big == 10000
EmptyDirtyRect == [start_row |-> Big, start_col |-> Big, end_row |-> -1, end_col |-> -1]
\* A change notification: its signal and, for contentChanged and rectMoved, the
\* rectangle of cells (x, y, width, height).
Sig(name) == [sig |-> name, rect |-> <<0, 0, 0, 0>>]
\* emit rectMoved(dest, src)
RectMoved(dest, src) == [sig |-> "rectMoved", rect |-> dest, src |-> src]
\* emit propChanged(prop, val)
PropChanged(prop) == [sig |-> "propChanged", rect |-> <<0, 0, 0, 0>>, prop |-> prop]
ContentChanged(x, y, w, h) == [sig |-> "contentChanged", rect |-> <<x, y, w, h>>]
\* emit contentChanged(QRect(0, 0, m_cols, m_rows))
FullContentChanged == ContentChanged(0, 0, m_cols, m_rows)
\* The signals of `if (!m_suppressSignals) emit ...`.
Unless(suppress, sigs) == IF suppress THEN <<>> ELSE sigs
RECURSIVE Repeat(_, _)
Repeat(x, n) == IF n <= 0 THEN <<>> ELSE <<x>> \o Repeat(x, n - 1)
\* Mutant of MouseForwarded: mouse events go to the engine in any mode.
MouseForwardedAlways(mode) == TRUE
\* sendMouse / sendMouseMove: `if (!m_vterm || m_mouseMode == 0) return;`
MouseForwarded(mode) == mode /= 0
\* VTERM_PROP_MOUSE values: none, click, drag, move.
MouseModes == 0..3

\* No window size: there is no pty.
NoSize == [rows |-> 0, cols |-> 0]
\* The pty of the current PtyProcess is there to be resized or written to:
\* m_masterFd >= 0, resp. m_hPC valid.
PtyOpen == IF backend = "unix" THEN m_masterFd >= 0 ELSE m_hPC
\* Mutant of PtyResize: width and height swapped on the way to the pty.
PtyResizeSwapped(size, has, open, rows, cols) ==
    IF has /\ open THEN [rows |-> cols, cols |-> rows] ELSE size
\* if (m_pty) m_pty->resize(QSize(cols, rows)): TIOCSWINSZ on an open master,
\* ResizePseudoConsole on a valid pseudo console, nothing otherwise.
PtyResize(size, has, open, rows, cols) ==
    IF has /\ open THEN [rows |-> rows, cols |-> cols] ELSE size
\* Mutant of PtysAfterStart: the previous PtyProcess is not deleted.
PtysAfterStartKeep(n, had) == n + 1
\* start(): `delete m_pty` for a previous PtyProcess, then setupPty() makes one.
PtysAfterStart(n, had) == (IF had THEN n - 1 ELSE n) + 1
\* isRunning(): the session has a PtyProcess.
isRunning == m_pty /= "null"

\* ----------------------------------------------------------------- actions
\* A session as constructed and configured, in a build for backend b.
InitSession(b) ==
    /\ maxScrollback \in 0..MaxCap
    /\ m_scrollback = <<>>
    /\ m_rows \in 1..MaxRows
    /\ m_cols \in 1..MaxCols
    /\ m_altScreen = FALSE
    /\ screen = BlankScreen(m_rows, m_cols)
    /\ cellsIn = <<>>
    /\ cells = <<>>
    /\ ret = 0
    /\ serial = 1
    /\ resizes = 0
    /\ pushLog = <<>>
    /\ pushOnly = TRUE
    /\ m_selectionStart = NoPoint
    /\ m_selectionEnd = NoPoint
    /\ op = "init"
    /\ arg = <<>>
    /\ ptyObjects = 0
    /\ ptySize = NoSize
    /\ m_mouseMode = 0
    /\ m_cursorRow = 0
    /\ m_cursorCol = 0
    /\ m_cursorVisible = TRUE
    /\ m_cursorBlink = FALSE
    /\ m_cursorShape = 1
    /\ mouseCalls = <<>>
    /\ emitted = <<>>
    /\ m_restoring = FALSE
    /\ m_suppressSignals = FALSE
    /\ m_pendingLogReplay = FALSE
    /\ m_replayFile = NoFile
    /\ backend = b
    /\ m_pty = "null"
    /\ child = "none"
    /\ pipe = <<>>
    /\ written = 0
    /\ m_pid = -1
    /\ m_masterFd = -1
    /\ m_notifier = "none"
    /\ m_hPC = FALSE
    /\ m_hPipeIn = FALSE
    /\ m_hPipeOut = FALSE
    /\ m_hProcess = FALSE
    /\ m_readerThread = "none"
    /\ queue = <<>>
    /\ m_running = TRUE
    /\ readPc = "test"
    /\ killPc = "idle"
    /\ events = <<>>
    /\ eof = FALSE
    /\ lostFinished = FALSE
\* No replay scheduled, no working directory reported, logging off.
HostIdle ==
    /\ replayTimer = 0
    /\ fed = <<>>
    /\ m_cwd = <<>>
    /\ m_oscBuffer = <<>>
    /\ enableLogging = FALSE
    /\ logFiles = <<>>
    /\ m_logFile = 0
    /\ logOwner = FALSE
NoRoundTrip == rtName = <<>> /\ rtStream = <<>> /\ rtFile = <<>> /\ rtFed = <<>>
\* KodoTermRenderer::KodoTermRenderer(): no image, empty caches, m_dirty = true,
\* resetDirtyRect().
InitRenderer ==
    /\ rendRows = 0
    /\ rendCols = 0
    /\ m_dirty = TRUE
    /\ m_dirtyRect = EmptyDirtyRect
    /\ m_cellCache = <<>>
    /\ m_selectedCache = <<>>
    /\ m_backBuffer = <<>>
    /\ draws = 0
    /\ noted = <<>>
InitOn(b) ==
    /\ InitSession(b)
    /\ HostIdle
    /\ NoRoundTrip
    /\ attached = FALSE
    /\ m_scrollValue = 0
    /\ InitRenderer
Init == InitOn("unix")

\* ---------------------------------------------------------------- renderer
\* QRect (x, y, width, height): its edges.
Left(q) == q[1]
Top(q) == q[2]
Right(q) == q[1] + q[3] - 1
Bottom(q) == q[2] + q[4] - 1
\* Mutant of NoteDamage: the dirty rectangle becomes the rectangle noted last.
NoteDamageLast(d, q) ==
    [start_row |-> Top(q), start_col |-> Left(q), end_row |-> Bottom(q), end_col |-> Right(q)]
\* noteDamage(rect), the dirty rectangle.
NoteDamage(d, q) ==
    [start_row |-> Min(d.start_row, Top(q)), start_col |-> Min(d.start_col, Left(q)),
     end_row |-> Max(d.end_row, Bottom(q)), end_col |-> Max(d.end_col, Right(q))]
\* setDirty(true), the dirty rectangle, and the same as a QRect.
FullDirtyRect == [start_row |-> 0, start_col |-> 0, end_row |-> Big, end_col |-> Big]
EverythingRect == <<0, 0, Big + 1, Big + 1>>
\* A cache entry with chars[0] = (uint32_t)-1: of a vector just assigned, and of
\* an entry setDirty went over.
InvalidCell == [chars |-> <<-1>>, attrs |-> 0, fg |-> 0, bg |-> 0, width |-> 0]
Invalidate(c) ==
    [c EXCEPT !.chars = <<-1>> \o (IF c.chars = <<>> THEN <<>> ELSE Tail(c.chars))]
cellsEqual(a, b) ==
    a.width = b.width /\ a.attrs = b.attrs /\ a.fg = b.fg /\ a.bg = b.bg /\ a.chars = b.chars
\* What the image shows at one cell position: column `part` of the drawing of
\* `cell`, selected or not. fill(defBg) shows what a blank cell shows; a new QImage
\* shows whatever its memory held.
Pix(cell, sel, part) == [cell |-> cell, sel |-> sel, part |-> part]
FillPix == Pix(BlankCell, FALSE, 0)
UninitPix == Pix(InvalidCell, FALSE, 0)
\* The renderer as a record, and the record of the current state.
Renderer ==
    [rows |-> rendRows, cols |-> rendCols, dirty |-> m_dirty, rect |-> m_dirtyRect,
     cache |-> m_cellCache, sel |-> m_selectedCache, buf |-> m_backBuffer, draws |-> draws,
     noted |-> noted]
SetRenderer(R) ==
    /\ rendRows' = R.rows
    /\ rendCols' = R.cols
    /\ m_dirty' = R.dirty
    /\ m_dirtyRect' = R.rect
    /\ m_cellCache' = R.cache
    /\ m_selectedCache' = R.sel
    /\ m_backBuffer' = R.buf
    /\ draws' = R.draws
    /\ noted' = R.noted
\* The rectangles noted since the dirty rectangle was empty: the first two, and a
\* mark for any further one.
Note(n, q) == IF Len(n) < 2 THEN Append(n, q) ELSE <<n[1], n[2], "more">>
\* noteDamage(rect)
NoteDamageR(R, q) ==
    [R EXCEPT !.rect = NoteDamage(R.rect, q), !.dirty = TRUE, !.noted = Note(R.noted, q)]
\* setDirty(true)
SetDirtyR(R) ==
    [R EXCEPT !.dirty = TRUE, !.rect = FullDirtyRect,
              !.cache = [i \in DOMAIN R.cache |-> Invalidate(R.cache[i])],
              !.sel = [i \in DOMAIN R.sel |-> FALSE],
              !.noted = Note(R.noted, EverythingRect)]
\* updateSize, after session->resizeTerminal returned: a new image, new caches,
\* setDirty().
UpdateSizeR(R, rows, cols) ==
    SetDirtyR([R EXCEPT !.rows = rows, !.cols = cols,
                        !.buf = [i \in 1..(rows * cols) |-> UninitPix],
                        !.cache = [i \in 1..(rows * cols) |-> InvalidCell],
                        !.sel = [i \in 1..(rows * cols) |-> FALSE]])
\* Mutant of RenderDone: the dirty flag is cleared, the dirty rectangle kept.
RenderDoneKeepRect(R) == [R EXCEPT !.dirty = FALSE]
\* The end of renderToBackbuffer: resetDirtyRect(); m_dirty = false.
RenderDone(R) == [R EXCEPT !.rect = EmptyDirtyRect, !.dirty = FALSE, !.noted = <<>>]
\* fillRect and drawText of one cell at row r, column c: the cell covers
\* cell.width columns of the image.
DrawCell(R, r, c, cell, sel) ==
    [R EXCEPT !.draws = @ + 1,
              !.buf = [i \in DOMAIN R.buf |->
                         IF i >= r * R.cols + c + 1 /\ i < r * R.cols + c + 1 + cell.width
                            /\ i <= (r + 1) * R.cols
                         THEN Pix(cell, sel, i - (r * R.cols + c + 1))
                         ELSE R.buf[i]]]
\* The inner loop of renderToBackbuffer over the columns c..eC-1 of row r.
RECURSIVE RenderRow(_, _, _, _, _, _)
RenderRow(R, r, c, eC, sv, useCache) ==
    IF c >= eC THEN R
    ELSE LET res == getCell(sv + r, c, BlankCell)
             cell == IF res.found THEN res.cell ELSE BlankCell
             sel == isSelected(sv + r, c)
             i == r * R.cols + c + 1
             next == c + (IF cell.width > 1 THEN cell.width ELSE 1)
         IN IF cell.width = 0 THEN RenderRow(R, r, c + 1, eC, sv, useCache)
            ELSE IF useCache /\ sel = R.sel[i] /\ cellsEqual(cell, R.cache[i])
            THEN RenderRow(R, r, next, eC, sv, useCache)
            ELSE RenderRow(DrawCell(IF useCache
                                    THEN [R EXCEPT !.cache[i] = cell, !.sel[i] = sel]
                                    ELSE R, r, c, cell, sel),
                           r, next, eC, sv, useCache)
\* The outer loop over the rows r..eR-1.
RECURSIVE RenderRows(_, _, _, _, _, _, _)
RenderRows(R, r, eR, sC, eC, sv, useCache) ==
    IF r >= eR THEN R
    ELSE RenderRows(RenderRow(R, r, sC, eC, sv, useCache), r + 1, eR, sC, eC, sv, useCache)
\* The cache is used with the view at the live bottom and the renderer's geometry
\* that of the session.
UseCache(R, sv) == sv = Len(m_scrollback) /\ m_rows = R.rows /\ m_cols = R.cols
\* renderToBackbuffer(session, scrollValue)
RenderToBackbuffer(R, sv) ==
    IF R.buf = <<>> \/ R.cache = <<>> THEN [R EXCEPT !.draws = 0]
    ELSE IF UseCache(R, sv) /\ R.rect.start_row > R.rect.end_row
    THEN [R EXCEPT !.dirty = FALSE, !.draws = 0]
    ELSE IF UseCache(R, sv)
    THEN RenderDone(RenderRows([R EXCEPT !.draws = 0],
                               Max(0, R.rect.start_row), Min(m_rows, R.rect.end_row + 1),
                               Max(0, R.rect.start_col), Min(m_cols, R.rect.end_col + 1),
                               sv, TRUE))
    ELSE RenderDone(RenderRows([R EXCEPT !.draws = 1,
                                         !.buf = [i \in DOMAIN R.buf |-> FillPix]],
                               0, m_rows, 0, m_cols, sv, FALSE))
\* moveRect, the image: the pixels of src are copied and drawn at dest's corner.
Blit(R, dest, src) ==
    [i \in DOMAIN R.buf |->
        LET r == (i - 1) \div R.cols
            c == (i - 1) % R.cols
            sr == r - Top(dest) + Top(src)
            sc == c - Left(dest) + Left(src)
        IN IF /\ r >= Top(dest) /\ r < Top(dest) + src[4]
              /\ c >= Left(dest) /\ c < Left(dest) + src[3]
              /\ sr >= 0 /\ sr < R.rows /\ sc >= 0 /\ sc < R.cols
           THEN R.buf[sr * R.cols + sc + 1]
           ELSE R.buf[i]]
\* moveRect, one std::copy: row sr of a cache is copied over row dr.
CopyRow(v, sr, dr, cols) ==
    [i \in DOMAIN v |->
        IF i > dr * cols /\ i <= (dr + 1) * cols THEN v[sr * cols + (i - dr * cols)] ELSE v[i]]
\* moveRect, the two loops over the rows of src: r counts up from 0 when dest lies
\* above src, down from h - 1 otherwise.
RECURSIVE ShiftRows(_, _, _, _, _, _)
ShiftRows(v, r, up, dest, src, R) ==
    IF r < 0 \/ r >= src[4] THEN v
    ELSE LET sr == Top(src) + r
             dr == Top(dest) + r
             w == IF sr >= 0 /\ sr < R.rows /\ dr >= 0 /\ dr < R.rows
                  THEN CopyRow(v, sr, dr, R.cols) ELSE v
         IN ShiftRows(w, IF up THEN r + 1 ELSE r - 1, up, dest, src, R)
\* moveRect(dest, src, scrollValue, sbSize)
MoveRect(R, dest, src, sv, sbSize) ==
    IF R.buf = <<>> \/ R.cache = <<>> THEN R
    ELSE IF sv /= sbSize THEN R
    ELSE LET up == Top(dest) < Top(src)
             first == IF up THEN 0 ELSE src[4] - 1
         IN NoteDamageR(NoteDamageR(
                [R EXCEPT !.buf = Blit(R, dest, src),
                          !.cache = ShiftRows(R.cache, first, up, dest, src, R),
                          !.sel = ShiftRows(R.sel, first, up, dest, src, R)],
                dest), src)
\* The slots KodoQuickTerm connects to the session's signals, run for the signals
\* of one handler in the order they were emitted: contentChanged notes damage,
\* rectMoved moves, propChanged of the alternate screen runs updateTerminalSize()
\* for the unchanged view.
RECURSIVE DeliverAll(_, _)
DeliverAll(R, sigs) ==
    IF sigs = <<>> THEN R
    ELSE LET g == Head(sigs)
             R1 == IF g.sig = "contentChanged" THEN NoteDamageR(R, g.rect)
                   ELSE IF g.sig = "rectMoved"
                   THEN MoveRect(R, g.rect, g.src, m_scrollValue, Len(m_scrollback'))
                   ELSE IF g.sig = "propChanged" /\ g.prop = "altscreen"
                   THEN UpdateSizeR(R, R.rows, R.cols)
                   ELSE R
         IN DeliverAll(R1, Tail(sigs))
\* The signals of the last handler as they reach a connected KodoQuickTerm, and
\* what KodoQuickTerm does around the session's handler where it wraps one:
\* resizeTerminal is called by updateSize, start by KodoQuickTerm::start, setConfig
\* by KodoQuickTerm::setConfig, which runs updateTerminalSize() after it.
Deliver ==
    IF ~attached THEN UNCHANGED renderVars
    ELSE /\ attached' = attached
         /\ m_scrollValue' = IF op' = "start" /\ arg'[1] THEN 0 ELSE m_scrollValue
         /\ SetRenderer(
              IF op' = "resizeTerminal"
              THEN UpdateSizeR(DeliverAll(Renderer, emitted'), m_rows', m_cols')
              ELSE IF op' = "setConfig"
              THEN LET R1 == DeliverAll(Renderer, emitted')
                   IN UpdateSizeR(R1, R1.rows, R1.cols)
              ELSE IF op' = "start"
              THEN LET R1 == DeliverAll(IF arg'[1] THEN SetDirtyR(Renderer) ELSE Renderer,
                                        emitted')
                   IN IF m_pty' = "started" THEN UpdateSizeR(R1, R1.rows, R1.cols) ELSE R1
              ELSE DeliverAll(Renderer, emitted'))

\* No scrollback callback ran in this step.
NoCallback == cellsIn' = <<>> /\ cells' = <<>> /\ ret' = 0

\* The child prints one more line with the cursor on the last row: the engine
\* reports the top row through sb_pushline and scrolls the screen up by one.
EngineScroll(kind) ==
    /\ serial <= MaxLines
    /\ cellsIn' = screen[1]
    /\ cells' = screen[1]
    /\ m_scrollback' = PushStore(m_scrollback, m_cols, screen[1], m_altScreen, maxScrollback)
    /\ ret' = PushRet(m_altScreen)
    /\ pushLog' = IF pushOnly THEN LogPush(pushLog, m_cols, screen[1], m_altScreen) ELSE pushLog
    /\ screen' = [r \in 1..m_rows |->
                    IF r < m_rows THEN screen[r + 1] ELSE NewLine(serial, kind, m_cols)]
    /\ serial' = serial + 1
    /\ op' = "pushScrollback"
    /\ UNCHANGED ptyVars
    /\ arg' = <<>>
    /\ fed' = IF m_restoring THEN Append(fed, "live") ELSE fed
    /\ logFiles' = IF m_logFile /= 0
                   THEN [logFiles EXCEPT ![m_logFile] = Append(@, ToString(serial))]
                   ELSE logFiles
    /\ UNCHANGED <<replayTimer, cwdVars, enableLogging, m_logFile, logOwner, rtVars>>
    /\ mouseCalls' = <<>>
    /\ UNCHANGED replayVars
    /\ UNCHANGED <<m_mouseMode, cursorVars>>
    /\ emitted' = Unless(m_suppressSignals,
                        (IF PushRet(m_altScreen) = 1 THEN <<Sig("scrollbackChanged")>>
                                                     ELSE <<>>)
                        \o (IF m_rows > 1
                            THEN <<RectMoved(<<0, 0, m_cols, m_rows - 1>>,
                                             <<0, 1, m_cols, m_rows - 1>>)>>
                            ELSE <<>>)
                        \o <<ContentChanged(0, m_rows - 1, m_cols, 1)>>)
    /\ UNCHANGED ptySize
    /\ UNCHANGED <<maxScrollback, m_rows, m_cols, m_altScreen, resizes, pushOnly>>
    /\ UNCHANGED selVars
    /\ Deliver

\* The engine asks for the most recent history line back (scroll-back-down),
\* handing over its line buffer. With a line in hand it puts it on the top row,
\* the rows below moving down.
EnginePopLine(buf) ==
    /\ cellsIn' = buf
    /\ cells' = PopCells(m_scrollback, m_cols, buf)
    /\ ret' = PopRet(m_scrollback)
    /\ m_scrollback' = PopStore(m_scrollback)
    /\ screen' = IF PopRet(m_scrollback) = 1
                 THEN [r \in 1..m_rows |-> IF r = 1 THEN cells' ELSE screen[r - 1]]
                 ELSE screen
    /\ pushOnly' = FALSE
    /\ pushLog' = <<>>
    /\ op' = "popScrollback"
    /\ UNCHANGED ptyVars
    /\ arg' = <<>>
    /\ UNCHANGED hostVars
    /\ mouseCalls' = <<>>
    /\ UNCHANGED replayVars
    /\ UNCHANGED <<m_mouseMode, cursorVars>>
    /\ emitted' = Unless(m_suppressSignals,
                        IF PopRet(m_scrollback) = 1
                        THEN <<Sig("scrollbackChanged"), FullContentChanged>> ELSE <<>>)
    /\ UNCHANGED ptySize
    /\ UNCHANGED <<maxScrollback, m_rows, m_cols, m_altScreen, serial, resizes>>
    /\ UNCHANGED selVars
    /\ Deliver

\* onSetTermProp(VTERM_PROP_ALTSCREEN, b): the engine switched screens; the
\* screen it switches to is shown erased.
SetAltScreen(b) ==
    /\ b # m_altScreen
    /\ m_altScreen' = b
    /\ screen' = BlankScreen(m_rows, m_cols)
    /\ op' = "onSetTermProp"
    /\ UNCHANGED ptyVars
    /\ arg' = <<"altscreen", IF b THEN 1 ELSE 0>>
    /\ UNCHANGED hostVars
    /\ mouseCalls' = <<>>
    /\ UNCHANGED replayVars
    /\ UNCHANGED <<m_mouseMode, cursorVars>>
    /\ emitted' = Unless(m_suppressSignals, <<PropChanged("altscreen")>>)
    /\ UNCHANGED ptySize
    /\ NoCallback
    /\ UNCHANGED <<maxScrollback, m_scrollback, m_rows, m_cols, serial, resizes, pushLog,
                   pushOnly>>
    /\ UNCHANGED selVars
    /\ Deliver

\* A line cut or padded with blank cells to cols cells.
FitLine(line, cols) == [c \in 1..cols |-> IF c <= Len(line) THEN line[c] ELSE BlankCell]

\* j successive pushScrollback calls for the top j rows of scr.
RECURSIVE PushRows(_, _, _, _, _, _)
PushRows(sb, scr, j, cols, alt, cap) ==
    IF j = 0 THEN sb
    ELSE PushRows(PushStore(sb, cols, Head(scr), alt, cap), Tail(scr), j - 1, cols, alt, cap)
RECURSIVE LogRows(_, _, _, _, _)
LogRows(log, scr, j, cols, alt) ==
    IF j = 0 THEN log
    ELSE LogRows(LogPush(log, cols, Head(scr), alt), Tail(scr), j - 1, cols, alt)
\* j successive popScrollback calls: the store left after them.
RECURSIVE PopRows(_, _)
PopRows(sb, j) == IF j = 0 THEN sb ELSE PopRows(PopStore(sb), j - 1)

\* resizeTerminal(rows, cols): clamp to 1x1, nothing when unchanged, else the
\* new size goes to the engine (and the pty). vterm_set_size may, on a screen
\* that loses rows, report up to that many top rows through sb_pushline, and on
\* one that gains rows, fetch up to that many lines through sb_popline.
resizeTerminal(rows0, cols0) ==
    LET rows == IF rows0 <= 0 THEN 1 ELSE rows0
        cols == IF cols0 <= 0 THEN 1 ELSE cols0
    IN  /\ op' = "resizeTerminal"
        /\ UNCHANGED ptyVars
        /\ arg' = <<rows0, cols0>>
        /\ UNCHANGED hostVars
        /\ mouseCalls' = <<>>
        /\ UNCHANGED replayVars
        /\ UNCHANGED <<m_mouseMode, cursorVars>>
        /\ IF m_rows = rows /\ m_cols = cols
           THEN /\ NoCallback
                /\ emitted' = <<>>
                /\ UNCHANGED ptySize
                /\ UNCHANGED <<maxScrollback, m_scrollback, m_rows, m_cols, m_altScreen,
                               screen, serial, resizes, pushLog, pushOnly>>
           ELSE /\ resizes < MaxResizes
                /\ resizes' = resizes + 1
                /\ ptySize' = PtyResize(ptySize, m_pty /= "null", PtyOpen, rows, cols)
                /\ m_rows' = rows
                /\ m_cols' = cols
                /\ \/ \E j \in 0..Max(0, m_rows - rows) :
                        /\ m_scrollback' = PushRows(m_scrollback, screen, j, m_cols,
                                                    m_altScreen, maxScrollback)
                        /\ pushLog' = IF pushOnly
                                      THEN LogRows(pushLog, screen, j, m_cols, m_altScreen)
                                      ELSE pushLog
                        /\ pushOnly' = pushOnly
                        /\ emitted' = Unless(m_suppressSignals,
                                Repeat(Sig("scrollbackChanged"), j * PushRet(m_altScreen))
                                \o <<ContentChanged(0, 0, cols, rows)>>)
                        /\ cells' = IF j = 0 THEN <<>> ELSE screen[j]
                        /\ cellsIn' = cells'
                        /\ ret' = IF j = 0 THEN 0 ELSE PushRet(m_altScreen)
                        /\ screen' = [r \in 1..rows |->
                                        IF r + j <= m_rows THEN FitLine(screen[r + j], cols)
                                        ELSE BlankLine(cols)]
                   \/ \E j \in 1..Min(Len(m_scrollback), Max(0, rows - m_rows)) :
                        /\ m_scrollback' = PopRows(m_scrollback, j)
                        /\ pushOnly' = FALSE
                        /\ emitted' = Unless(m_suppressSignals,
                                Repeat(Sig("scrollbackChanged"), j)
                                \o <<ContentChanged(0, 0, cols, rows)>>)
                        /\ pushLog' = <<>>
                        /\ cellsIn' = BlankLine(cols)
                        /\ cells' = PopCells(PopRows(m_scrollback, j - 1), cols, BlankLine(cols))
                        /\ ret' = 1
                        /\ screen' = [r \in 1..rows |->
                                        IF r <= j
                                        THEN PopCells(PopRows(m_scrollback, j - r), cols,
                                                      BlankLine(cols))
                                        ELSE IF r - j <= m_rows
                                        THEN FitLine(screen[r - j], cols)
                                        ELSE BlankLine(cols)]
                /\ UNCHANGED <<maxScrollback, m_altScreen, serial>>
        /\ UNCHANGED selVars
        /\ Deliver

\* clearScrollback()
clearScrollback ==
    /\ m_scrollback' = <<>>
    /\ pushLog' = <<>>
    /\ pushOnly' = TRUE
    /\ op' = "clearScrollback"
    /\ UNCHANGED ptyVars
    /\ arg' = <<>>
    /\ UNCHANGED hostVars
    /\ mouseCalls' = <<>>
    /\ UNCHANGED replayVars
    /\ UNCHANGED <<m_mouseMode, cursorVars>>
    /\ emitted' = <<Sig("scrollbackChanged")>>
    /\ UNCHANGED ptySize
    /\ NoCallback
    /\ UNCHANGED <<maxScrollback, m_rows, m_cols, m_altScreen, screen, serial, resizes>>
    /\ UNCHANGED selVars
    /\ Deliver

\* resetTerminal(), what it leaves of the terminal state.
ResetSignals == <<Sig("scrollbackChanged"), FullContentChanged>>
ResetEffect ==
    /\ screen' = BlankScreen(m_rows, m_cols)
    /\ m_altScreen' = FALSE
    /\ m_mouseMode' = 0
    /\ m_cursorVisible' = TRUE
    /\ m_cursorBlink' = FALSE
    /\ m_cursorShape' = 1
    /\ UNCHANGED cursorPos
    /\ m_scrollback' = <<>>
    /\ pushLog' = <<>>
    /\ pushOnly' = TRUE

resetTerminal ==
    /\ ResetEffect
    /\ op' = "resetTerminal"
    /\ UNCHANGED ptyVars
    /\ arg' = <<>>
    /\ UNCHANGED hostVars
    /\ mouseCalls' = <<>>
    /\ UNCHANGED replayVars
    /\ emitted' = ResetSignals
    /\ UNCHANGED ptySize
    /\ NoCallback
    /\ UNCHANGED <<maxScrollback, m_rows, m_cols, serial, resizes>>
    /\ UNCHANGED selVars
    /\ Deliver

\* start(reset): an earlier PtyProcess is killed and deleted, the terminal is
\* reset on request, a new PtyProcess is created and, with a program configured,
\* started. spawn is what the operating system makes of it: "ok", "nopty" (no
\* pty or pipe to be had) or "noexec" (the program cannot be executed).
start(reset, program, spawn) ==
    LET ok == program /= "" /\ StartReturns(backend, spawn)
        attempted == program /= "" /\ spawn /= "nopty"
    IN
    /\ IF reset THEN ResetEffect
       ELSE UNCHANGED <<screen, m_altScreen, m_mouseMode, cursorVars, m_scrollback, pushLog,
                        pushOnly>>
    /\ killPc = "idle"
    /\ op' = "start"
    /\ arg' = <<reset, program>>
    /\ ok /\ m_pendingLogReplay => replayTimer < MaxTimers
    /\ replayTimer' = IF ok /\ m_pendingLogReplay THEN replayTimer + 1 ELSE replayTimer
    /\ IF program /= "" /\ enableLogging
       THEN /\ Len(logFiles) < MaxLogs
            /\ logFiles' = Append(logFiles, LogHeader(<<program>>))
            /\ m_logFile' = Len(logFiles) + 1
            /\ logOwner' = TRUE
       ELSE /\ logOwner' = FALSE
            /\ UNCHANGED <<logFiles, m_logFile>>
    /\ UNCHANGED <<fed, cwdVars, enableLogging, rtVars>>
    /\ mouseCalls' = <<>>
    /\ UNCHANGED replayVars
    /\ emitted' = IF reset THEN ResetSignals ELSE <<>>
    /\ ptyObjects' = PtysAfterStart(ptyObjects, m_pty /= "null")
    /\ ptySize' = IF ok THEN [rows |-> m_rows, cols |-> m_cols] ELSE NoSize
    /\ NoCallback
    /\ lostFinished' = (lostFinished \/ (m_pty = "started" /\ NumFinished(events) = 0))
    /\ m_pty' = IF ok THEN "started" ELSE "idle"
    /\ child' = IF ~ok THEN "none" ELSE IF spawn = "ok" THEN "alive" ELSE "exit1"
    /\ pipe' = <<>>
    /\ written' = 0
    /\ events' = <<>>
    /\ eof' = FALSE
    /\ queue' = <<>>
    /\ m_pid' = IF backend = "unix" /\ ok THEN 1 ELSE -1
    /\ m_masterFd' = IF backend = "unix" /\ ok THEN 3 ELSE -1
    /\ m_notifier' = IF backend = "unix" /\ ok THEN "enabled" ELSE "none"
    /\ m_hPC' = (backend = "win" /\ attempted)
    /\ m_hPipeIn' = (backend = "win" /\ attempted)
    /\ m_hPipeOut' = (backend = "win" /\ attempted)
    /\ m_hProcess' = (backend = "win" /\ ok)
    /\ m_readerThread' = IF backend = "win" /\ ok THEN "running" ELSE "none"
    /\ m_running' = TRUE
    /\ readPc' = "test"
    /\ UNCHANGED <<maxScrollback, m_rows, m_cols, serial, resizes, backend, killPc>>
    /\ UNCHANGED selVars
    /\ Deliver

\* setConfig(config): the configuration is copied, maxScrollback with it.
setConfig(cap) ==
    /\ maxScrollback' = cap
    /\ pushOnly' = (pushOnly /\ (cap = maxScrollback \/ pushLog = <<>>))
    /\ pushLog' = IF pushOnly' THEN pushLog ELSE <<>>
    /\ op' = "setConfig"
    /\ UNCHANGED ptyVars
    /\ arg' = <<>>
    /\ UNCHANGED hostVars
    /\ mouseCalls' = <<>>
    /\ UNCHANGED replayVars
    /\ UNCHANGED <<m_mouseMode, cursorVars>>
    /\ emitted' = <<FullContentChanged>>
    /\ UNCHANGED ptySize
    /\ NoCallback
    /\ UNCHANGED <<m_scrollback, m_rows, m_cols, m_altScreen, screen, serial, resizes>>
    /\ UNCHANGED selVars
    /\ Deliver

\* setSelection(start, end)
setSelection(s, e) ==
    /\ m_selectionStart' = s
    /\ m_selectionEnd' = e
    /\ op' = "setSelection"
    /\ UNCHANGED ptyVars
    /\ arg' = <<>>
    /\ UNCHANGED hostVars
    /\ mouseCalls' = <<>>
    /\ UNCHANGED replayVars
    /\ UNCHANGED <<m_mouseMode, cursorVars>>
    /\ emitted' = <<FullContentChanged>>
    /\ UNCHANGED ptySize
    /\ NoCallback
    /\ UNCHANGED <<maxScrollback, m_scrollback, m_rows, m_cols, m_altScreen, screen,
                   serial, resizes, pushLog, pushOnly>>
    /\ Deliver

\* clearSelection()
clearSelection ==
    /\ m_selectionStart' = NoPoint
    /\ m_selectionEnd' = NoPoint
    /\ op' = "clearSelection"
    /\ UNCHANGED ptyVars
    /\ arg' = <<>>
    /\ UNCHANGED hostVars
    /\ mouseCalls' = <<>>
    /\ UNCHANGED replayVars
    /\ UNCHANGED <<m_mouseMode, cursorVars>>
    /\ emitted' = <<FullContentChanged>>
    /\ UNCHANGED ptySize
    /\ NoCallback
    /\ UNCHANGED <<maxScrollback, m_scrollback, m_rows, m_cols, m_altScreen, screen,
                   serial, resizes, pushLog, pushOnly>>
    /\ Deliver

\* selectAll()
selectAll ==
    /\ m_selectionStart' = [x |-> 0, y |-> 0]
    /\ m_selectionEnd' = [x |-> m_cols - 1, y |-> Len(m_scrollback) + m_rows - 1]
    /\ op' = "selectAll"
    /\ UNCHANGED ptyVars
    /\ arg' = <<>>
    /\ UNCHANGED hostVars
    /\ mouseCalls' = <<>>
    /\ UNCHANGED replayVars
    /\ UNCHANGED <<m_mouseMode, cursorVars>>
    /\ emitted' = <<FullContentChanged>>
    /\ UNCHANGED ptySize
    /\ NoCallback
    /\ UNCHANGED <<maxScrollback, m_scrollback, m_rows, m_cols, m_altScreen, screen,
                   serial, resizes, pushLog, pushOnly>>
    /\ Deliver

\* kill(): the session passes it on to its PtyProcess, if it has one.
\* PtyProcessUnix::kill sends SIGTERM (dies: the child ends on it at once) and
\* forgets the pid. PtyProcessWin::kill closes the pseudo console, stops, joins
\* and deletes the reader thread, closing the read handle (drain: the thread
\* hands on what it had read before it leaves), closes the write handle and
\* terminates the child.
kill(dies, drain) ==
    /\ killPc = "idle"
    /\ op' = "kill"
    /\ NoCallback
    /\ IF m_pty = "null" THEN UNCHANGED <<child, pipe, unixVars, winVars, eof>>
       ELSE IF backend = "unix"
       THEN /\ m_pid' = -1
            /\ child' = IF m_pid > 0 /\ child = "alive" /\ dies THEN "signaled" ELSE child
            /\ UNCHANGED <<pipe, m_masterFd, m_notifier, winVars, eof>>
       ELSE LET reading == m_readerThread = "running"
                handOn == reading /\ drain /\ pipe /= <<>>
            IN  /\ m_hPC' = FALSE
                /\ m_hPipeIn' = IF m_readerThread /= "none" THEN FALSE ELSE m_hPipeIn
                /\ m_readerThread' = "none"
                /\ queue' = IF handOn THEN Append(queue, ReadChunk(pipe)) ELSE queue
                /\ pipe' = IF handOn THEN ReadRest(pipe) ELSE pipe
                /\ eof' = (eof \/ reading)
                /\ m_hPipeOut' = FALSE
                /\ child' = IF m_hProcess /\ child = "alive" THEN "signaled" ELSE child
                /\ m_hProcess' = FALSE
                /\ m_running' = TRUE
                /\ readPc' = "test"
                /\ UNCHANGED <<unixVars, killPc>>
    /\ UNCHANGED <<backend, m_pty, written, events, lostFinished>>
    /\ UNCHANGED <<sessionVars, selVars>>
    /\ arg' = <<>>
    /\ UNCHANGED hostVars
    /\ mouseCalls' = <<>>
    /\ UNCHANGED replayVars
    /\ UNCHANGED <<m_mouseMode, cursorVars>>
    /\ emitted' = <<>>
    /\ UNCHANGED <<ptyObjects, ptySize>>
    /\ Deliver

\* The child writes one byte to its terminal.
ChildWrite ==
    /\ child = "alive"
    /\ written < MaxBytes
    /\ (backend = "win" => m_hPC)
    /\ written' = written + 1
    /\ pipe' = Append(pipe, written + 1)
    /\ op' = "childWrite"
    /\ NoCallback
    /\ UNCHANGED <<backend, m_pty, child, unixVars, winVars, events, eof, lostFinished>>
    /\ UNCHANGED <<sessionVars, selVars>>
    /\ arg' = <<>>
    /\ UNCHANGED hostVars
    /\ mouseCalls' = <<>>
    /\ UNCHANGED replayVars
    /\ UNCHANGED <<m_mouseMode, cursorVars>>
    /\ emitted' = <<>>
    /\ UNCHANGED <<ptyObjects, ptySize>>
    /\ Deliver

\* The child exits with this code.
ChildExit(code) ==
    /\ child = "alive"
    /\ child' = IF code = 0 THEN "exit0" ELSE "exit1"
    /\ op' = "childExit"
    /\ NoCallback
    /\ UNCHANGED <<backend, m_pty, pipe, written, unixVars, winVars, events, eof,
                   lostFinished>>
    /\ UNCHANGED <<sessionVars, selVars>>
    /\ arg' = <<>>
    /\ UNCHANGED hostVars
    /\ mouseCalls' = <<>>
    /\ UNCHANGED replayVars
    /\ UNCHANGED <<m_mouseMode, cursorVars>>
    /\ emitted' = <<>>
    /\ UNCHANGED <<ptyObjects, ptySize>>
    /\ Deliver

\* PtyProcessUnix::onReadyRead: the notifier fires on a readable master. With
\* bytes there read returns them; with none and the child gone it returns 0 or
\* fails, as the kernel has it (atEnd: "eof" or "eio").
onReadyRead(atEnd) ==
    /\ backend = "unix"
    /\ m_notifier = "enabled"
    /\ \/ /\ pipe /= <<>>
          /\ events' = Append(events, ReadyRead(ReadChunk(pipe)))
          /\ pipe' = ReadRest(pipe)
          /\ UNCHANGED <<m_notifier, eof>>
       \/ /\ pipe = <<>>
          /\ child \notin {"none", "alive"}
          /\ m_notifier' = "disabled"
          /\ events' = Append(events, IF atEnd = "eio" THEN Finished(-1, -1)
                                                       ELSE Finished(0, 0))
          /\ eof' = TRUE
          /\ UNCHANGED pipe
    /\ op' = "onReadyRead"
    /\ NoCallback
    /\ UNCHANGED <<backend, m_pty, child, written, m_pid, m_masterFd, winVars,
                   lostFinished>>
    /\ UNCHANGED <<sessionVars, selVars>>
    /\ arg' = <<>>
    /\ UNCHANGED hostVars
    /\ mouseCalls' = <<>>
    /\ UNCHANGED replayVars
    /\ UNCHANGED <<m_mouseMode, cursorVars>>
    /\ emitted' = IF pipe /= <<>> THEN Unless(m_suppressSignals, <<FullContentChanged>>)
                                   ELSE <<>>
    /\ UNCHANGED <<ptyObjects, ptySize>>
    /\ Deliver

\* PtyProcessWin::ReaderThread::run, one turn of its loop: ReadFile returns
\* bytes, which are posted to the main loop, or it returns none or fails once
\* the child is gone, and the loop is left.
ReaderThreadRun ==
    /\ backend = "win"
    /\ m_readerThread = "running"
    /\ readPc = "test"
    /\ m_running
    /\ ReadFileReturns(pipe, m_hPC, m_hPipeIn, child)
    /\ \/ /\ ReadFileGivesBytes(pipe, m_hPipeIn)
          /\ queue' = Append(queue, ReadChunk(pipe))
          /\ pipe' = ReadRest(pipe)
          /\ UNCHANGED <<m_readerThread, eof>>
       \/ /\ ~ReadFileGivesBytes(pipe, m_hPipeIn)
          /\ m_readerThread' = "done"
          /\ eof' = TRUE
          /\ UNCHANGED <<pipe, queue>>
    /\ op' = "ReaderThread::run"
    /\ NoCallback
    /\ UNCHANGED <<backend, m_pty, child, written, unixVars, m_hPC, m_hPipeIn,
                   m_hPipeOut, m_hProcess, threadVars, events, lostFinished>>
    /\ UNCHANGED <<sessionVars, selVars>>
    /\ arg' = <<>>
    /\ UNCHANGED hostVars
    /\ mouseCalls' = <<>>
    /\ UNCHANGED replayVars
    /\ UNCHANGED <<m_mouseMode, cursorVars>>
    /\ emitted' = <<>>
    /\ UNCHANGED <<ptyObjects, ptySize>>
    /\ Deliver

\* PtyProcessWin::onReadThreadData: the main loop runs a posted invocation.
onReadThreadData ==
    /\ backend = "win"
    /\ killPc = "idle"
    /\ m_pty /= "null"
    /\ queue /= <<>>
    /\ events' = Append(events, ReadyRead(Head(queue)))
    /\ queue' = Tail(queue)
    /\ op' = "onReadThreadData"
    /\ NoCallback
    /\ UNCHANGED <<backend, m_pty, child, pipe, written, unixVars, m_hPC, m_hPipeIn,
                   m_hPipeOut, m_hProcess, m_readerThread, threadVars, eof, lostFinished>>
    /\ UNCHANGED <<sessionVars, selVars>>
    /\ arg' = <<>>
    /\ UNCHANGED hostVars
    /\ mouseCalls' = <<>>
    /\ UNCHANGED replayVars
    /\ UNCHANGED <<m_mouseMode, cursorVars>>
    /\ emitted' = Unless(m_suppressSignals, <<FullContentChanged>>)
    /\ UNCHANGED <<ptyObjects, ptySize>>
    /\ Deliver

\* PtyProcessWin::kill() statement by statement, as the reader thread sees it.
\* ClosePseudoConsole(m_hPC).
killClosePseudoConsole ==
    /\ backend = "win" /\ m_pty /= "null" /\ killPc = "idle"
    /\ m_hPC' = FALSE
    /\ killPc' = IF m_readerThread /= "none" THEN "stop" ELSE "closeOut"
    /\ op' = "kill:ClosePseudoConsole"
    /\ NoCallback
    /\ UNCHANGED <<backend, m_pty, child, pipe, written, unixVars, m_hPipeIn, m_hPipeOut,
                   m_hProcess, m_readerThread, queue, m_running, readPc, events, eof,
                   lostFinished>>
    /\ UNCHANGED <<sessionVars, selVars>>
    /\ arg' = <<>>
    /\ UNCHANGED hostVars
    /\ mouseCalls' = <<>>
    /\ UNCHANGED replayVars
    /\ UNCHANGED <<m_mouseMode, cursorVars>>
    /\ emitted' = <<>>
    /\ UNCHANGED <<ptyObjects, ptySize>>
    /\ Deliver

\* m_readerThread->stop(): m_running = false.
killStopThread ==
    /\ killPc = "stop"
    /\ m_running' = FALSE
    /\ killPc' = "closeIn"
    /\ op' = "kill:stop"
    /\ NoCallback
    /\ UNCHANGED <<backend, m_pty, child, pipe, written, unixVars, m_hPC, m_hPipeIn,
                   m_hPipeOut, m_hProcess, m_readerThread, queue, readPc, events, eof,
                   lostFinished>>
    /\ UNCHANGED <<sessionVars, selVars>>
    /\ arg' = <<>>
    /\ UNCHANGED hostVars
    /\ mouseCalls' = <<>>
    /\ UNCHANGED replayVars
    /\ UNCHANGED <<m_mouseMode, cursorVars>>
    /\ emitted' = <<>>
    /\ UNCHANGED <<ptyObjects, ptySize>>
    /\ Deliver

\* CloseHandle(m_hPipeIn).
killCloseRead ==
    /\ killPc = "closeIn"
    /\ m_hPipeIn' = FALSE
    /\ killPc' = "wait"
    /\ op' = "kill:CloseHandle"
    /\ NoCallback
    /\ UNCHANGED <<backend, m_pty, child, pipe, written, unixVars, m_hPC, m_hPipeOut,
                   m_hProcess, m_readerThread, queue, m_running, readPc, events, eof,
                   lostFinished>>
    /\ UNCHANGED <<sessionVars, selVars>>
    /\ arg' = <<>>
    /\ UNCHANGED hostVars
    /\ mouseCalls' = <<>>
    /\ UNCHANGED replayVars
    /\ UNCHANGED <<m_mouseMode, cursorVars>>
    /\ emitted' = <<>>
    /\ UNCHANGED <<ptyObjects, ptySize>>
    /\ Deliver

\* m_readerThread->wait(3000) returns: the thread has finished, or the time is up.
killWait(timedOut) ==
    /\ killPc = "wait"
    /\ m_readerThread = "done" \/ timedOut
    /\ killPc' = "join"
    /\ op' = "kill:wait"
    /\ NoCallback
    /\ UNCHANGED <<backend, m_pty, child, pipe, written, unixVars, m_hPC, m_hPipeIn,
                   m_hPipeOut, m_hProcess, m_readerThread, queue, m_running, readPc, events,
                   eof, lostFinished>>
    /\ UNCHANGED <<sessionVars, selVars>>
    /\ arg' = <<>>
    /\ UNCHANGED hostVars
    /\ mouseCalls' = <<>>
    /\ UNCHANGED replayVars
    /\ UNCHANGED <<m_mouseMode, cursorVars>>
    /\ emitted' = <<>>
    /\ UNCHANGED <<ptyObjects, ptySize>>
    /\ Deliver

\* if (isRunning()) { terminate(); wait(); }  delete m_readerThread.
killJoin ==
    /\ killPc = "join"
    /\ m_readerThread' = "none"
    /\ m_running' = TRUE
    /\ readPc' = "test"
    /\ killPc' = "closeOut"
    /\ op' = "kill:delete"
    /\ NoCallback
    /\ UNCHANGED <<backend, m_pty, child, pipe, written, unixVars, m_hPC, m_hPipeIn,
                   m_hPipeOut, m_hProcess, queue, events, eof, lostFinished>>
    /\ UNCHANGED <<sessionVars, selVars>>
    /\ arg' = <<>>
    /\ UNCHANGED hostVars
    /\ mouseCalls' = <<>>
    /\ UNCHANGED replayVars
    /\ UNCHANGED <<m_mouseMode, cursorVars>>
    /\ emitted' = <<>>
    /\ UNCHANGED <<ptyObjects, ptySize>>
    /\ Deliver

\* CloseHandle(m_hPipeOut), TerminateProcess and the process handles; kill() returns.
killFinish ==
    /\ killPc = "closeOut"
    /\ m_hPipeOut' = FALSE
    /\ child' = IF m_hProcess /\ child = "alive" THEN "signaled" ELSE child
    /\ m_hProcess' = FALSE
    /\ killPc' = "idle"
    /\ op' = "kill"
    /\ NoCallback
    /\ UNCHANGED <<backend, m_pty, pipe, written, unixVars, m_hPC, m_hPipeIn,
                   m_readerThread, queue, m_running, readPc, events, eof, lostFinished>>
    /\ UNCHANGED <<sessionVars, selVars>>
    /\ arg' = <<>>
    /\ UNCHANGED hostVars
    /\ mouseCalls' = <<>>
    /\ UNCHANGED replayVars
    /\ UNCHANGED <<m_mouseMode, cursorVars>>
    /\ emitted' = <<>>
    /\ UNCHANGED <<ptyObjects, ptySize>>
    /\ Deliver

\* ReaderThread::run, `while (m_running)`: m_running is a plain bool another
\* thread writes, so the test may still see the old true (seen).
threadTest(seen) ==
    /\ m_readerThread = "running" /\ readPc = "test"
    /\ seen \in {m_running, TRUE}
    /\ IF seen THEN readPc' = "blocked" /\ UNCHANGED m_readerThread
       ELSE m_readerThread' = "done" /\ UNCHANGED readPc
    /\ op' = "ReaderThread::test"
    /\ NoCallback
    /\ UNCHANGED <<backend, m_pty, child, pipe, written, unixVars, m_hPC, m_hPipeIn,
                   m_hPipeOut, m_hProcess, queue, m_running, killPc, events, eof,
                   lostFinished>>
    /\ UNCHANGED <<sessionVars, selVars>>
    /\ arg' = <<>>
    /\ UNCHANGED hostVars
    /\ mouseCalls' = <<>>
    /\ UNCHANGED replayVars
    /\ UNCHANGED <<m_mouseMode, cursorVars>>
    /\ emitted' = <<>>
    /\ UNCHANGED <<ptyObjects, ptySize>>
    /\ Deliver

\* ReaderThread::run, ReadFile returning: bytes are posted and the loop goes
\* round, no bytes or a failure breaks out of it.
threadReadFile ==
    /\ m_readerThread = "running" /\ readPc = "blocked"
    /\ ReadFileReturns(pipe, m_hPC, m_hPipeIn, child)
    /\ IF ReadFileGivesBytes(pipe, m_hPipeIn)
       THEN /\ queue' = Append(queue, ReadChunk(pipe))
            /\ pipe' = ReadRest(pipe)
            /\ readPc' = "test"
            /\ UNCHANGED <<m_readerThread, eof>>
       ELSE /\ m_readerThread' = "done"
            /\ eof' = TRUE
            /\ UNCHANGED <<pipe, queue, readPc>>
    /\ op' = "ReaderThread::ReadFile"
    /\ NoCallback
    /\ UNCHANGED <<backend, m_pty, child, written, unixVars, m_hPC, m_hPipeIn,
                   m_hPipeOut, m_hProcess, m_running, killPc, events, lostFinished>>
    /\ UNCHANGED <<sessionVars, selVars>>
    /\ arg' = <<>>
    /\ UNCHANGED hostVars
    /\ mouseCalls' = <<>>
    /\ UNCHANGED replayVars
    /\ UNCHANGED <<m_mouseMode, cursorVars>>
    /\ emitted' = <<>>
    /\ UNCHANGED <<ptyObjects, ptySize>>
    /\ Deliver

\* onSetTermProp(VTERM_PROP_MOUSE, n): the engine signals its mouse-reporting mode.
SetMouseMode(n) ==
    /\ m_mouseMode' = n
    /\ UNCHANGED cursorVars
    /\ op' = "onSetTermProp"
    /\ arg' = <<"mouse", n>>
    /\ UNCHANGED hostVars
    /\ mouseCalls' = <<>>
    /\ emitted' = Unless(m_suppressSignals, <<PropChanged("mouse")>>)
    /\ NoCallback
    /\ UNCHANGED <<termState, serial, resizes, pushLog, pushOnly>>
    /\ UNCHANGED <<selVars, ptyVars, ptySize, replayVars>>
    /\ Deliver

\* A callback of the engine that touches the cursor fields only.
CursorCallback(name, a, sigs) ==
    /\ op' = name
    /\ arg' = a
    /\ emitted' = sigs
    /\ mouseCalls' = <<>>
    /\ NoCallback
    /\ UNCHANGED <<termState, serial, resizes, pushLog, pushOnly, m_mouseMode>>
    /\ UNCHANGED <<selVars, ptyVars, ptySize, replayVars, hostVars>>

\* Mutant of onMoveCursor: the early return of a suppressed callback comes
\* before the fields are written.
onMoveCursorReturnsFirst(row, col, v) ==
    /\ m_cursorRow' = IF m_suppressSignals THEN m_cursorRow ELSE row
    /\ m_cursorCol' = IF m_suppressSignals THEN m_cursorCol ELSE col
    /\ m_cursorVisible' = IF m_suppressSignals THEN m_cursorVisible ELSE (v /= 0)
    /\ UNCHANGED <<m_cursorBlink, m_cursorShape>>
    /\ CursorCallback("onMoveCursor", <<row, col, v>>,
                      Unless(m_suppressSignals, <<Sig("cursorMoved")>>))
    /\ Deliver

\* onMoveCursor(pos, oldpos, visible)
onMoveCursor(row, col, v) ==
    /\ m_cursorRow' = row
    /\ m_cursorCol' = col
    /\ m_cursorVisible' = (v /= 0)
    /\ UNCHANGED <<m_cursorBlink, m_cursorShape>>
    /\ CursorCallback("onMoveCursor", <<row, col, v>>,
                      Unless(m_suppressSignals, <<Sig("cursorMoved")>>))
    /\ Deliver

\* Cursor shapes the engine reports: block, underline.
CursorShapes == 1..2
\* onSetTermProp(prop, val) for VTERM_PROP_CURSORVISIBLE, VTERM_PROP_CURSORBLINK
\* and VTERM_PROP_CURSORSHAPE; n is val->boolean or val->number.
SetCursorProp(prop, n) ==
    /\ m_cursorVisible' = IF prop = "cursorvisible" THEN (n /= 0) ELSE m_cursorVisible
    /\ m_cursorBlink' = IF prop = "cursorblink" THEN (n /= 0) ELSE m_cursorBlink
    /\ m_cursorShape' = IF prop = "cursorshape" THEN n ELSE m_cursorShape
    /\ UNCHANGED cursorPos
    /\ CursorCallback("onSetTermProp", <<prop, n>>,
                      Unless(m_suppressSignals,
                             (IF prop = "cursorvisible"
                              THEN <<Sig("cursorVisibilityChanged")>> ELSE <<>>)
                             \o <<PropChanged(prop)>>))
    /\ Deliver

\* sendMouse(button, row, col, modifiers, pressed)
sendMouse(button, pressed) ==
    /\ UNCHANGED hostVars
    /\ mouseCalls' = IF MouseForwarded(m_mouseMode) /\ button >= 1 /\ button <= 3
                     THEN <<"vterm_mouse_move", "vterm_mouse_button",
                            "vterm_screen_flush_damage">>
                     ELSE <<>>
    /\ op' = "sendMouse"
    /\ arg' = <<>>
    /\ emitted' = <<>>
    /\ NoCallback
    /\ UNCHANGED <<termState, serial, resizes, pushLog, pushOnly, m_mouseMode, cursorVars>>
    /\ UNCHANGED <<selVars, ptyVars, ptySize, replayVars>>
    /\ Deliver

\* sendMouseMove(row, col, modifiers)
sendMouseMove ==
    /\ UNCHANGED hostVars
    /\ mouseCalls' = IF MouseForwarded(m_mouseMode)
                     THEN <<"vterm_mouse_move", "vterm_screen_flush_damage">>
                     ELSE <<>>
    /\ op' = "sendMouseMove"
    /\ arg' = <<>>
    /\ emitted' = <<>>
    /\ NoCallback
    /\ UNCHANGED <<termState, serial, resizes, pushLog, pushOnly, m_mouseMode, cursorVars>>
    /\ UNCHANGED <<selVars, ptyVars, ptySize, replayVars>>
    /\ Deliver

\* setConfig(config) with a configuration that differs in enableLogging.
setConfigLogging(b) ==
    /\ enableLogging' = b
    /\ op' = "setConfig"
    /\ arg' = <<>>
    /\ mouseCalls' = <<>>
    /\ emitted' = <<FullContentChanged>>
    /\ NoCallback
    /\ UNCHANGED <<termState, serial, resizes, pushLog, pushOnly, m_mouseMode, cursorVars>>
    /\ UNCHANGED <<selVars, ptyVars, ptySize, replayVars>>
    /\ UNCHANGED <<replayTimer, fed, cwdVars, logFiles, m_logFile, logOwner, rtVars>>
    /\ Deliver

\* onOsc(command, frag): `piece` is the text of the fragment.
onOsc(command, initial, final, piece) ==
    LET buf == (IF initial THEN <<>> ELSE m_oscBuffer) \o <<piece>>
        resolves == final /\ command = 7 /\ OscResolves(buf)
    IN
    /\ Len(buf) <= MaxFrags
    /\ m_oscBuffer' = buf
    /\ m_cwd' = IF resolves THEN OscPath(buf) ELSE m_cwd
    /\ emitted' = IF resolves THEN Unless(m_suppressSignals, <<Sig("cwdChanged")>>) ELSE <<>>
    /\ op' = "onOsc"
    /\ arg' = <<command, final>>
    /\ mouseCalls' = <<>>
    /\ NoCallback
    /\ UNCHANGED <<termState, serial, resizes, pushLog, pushOnly, m_mouseMode, cursorVars>>
    /\ UNCHANGED <<selVars, ptyVars, ptySize, replayVars>>
    /\ UNCHANGED <<replayTimer, fed, logVars, rtVars>>
    /\ Deliver

\* A session of program rtName logs the stream rtStream: start() writes the
\* header, onPtyReadyRead appends the chunks.
writeLog ==
    /\ rtFile' = WriteLog(rtName, rtStream)
    /\ rtFed' = <<>>
    /\ op' = "writeLog"
    /\ arg' = <<>>
    /\ mouseCalls' = <<>>
    /\ emitted' = <<>>
    /\ NoCallback
    /\ UNCHANGED <<termState, serial, resizes, pushLog, pushOnly, m_mouseMode, cursorVars>>
    /\ UNCHANGED <<selVars, ptyVars, ptySize, replayVars>>
    /\ UNCHANGED <<replayTimer, fed, cwdVars, logVars, rtName, rtStream>>
    /\ Deliver

\* That log is replayed to its end.
replayLog ==
    /\ rtFile /= <<>>
    /\ rtFed' = Replayed(rtFile)
    /\ op' = "replayLog"
    /\ arg' = <<>>
    /\ mouseCalls' = <<>>
    /\ emitted' = <<>>
    /\ NoCallback
    /\ UNCHANGED <<termState, serial, resizes, pushLog, pushOnly, m_mouseMode, cursorVars>>
    /\ UNCHANGED <<selVars, ptyVars, ptySize, replayVars>>
    /\ UNCHANGED <<replayTimer, fed, cwdVars, logVars, rtName, rtStream, rtFile>>
    /\ Deliver

\* setRestoreLog(path) with a path that is not empty.
setRestoreLog ==
    /\ m_pendingLogReplay' = TRUE
    /\ op' = "setRestoreLog"
    /\ arg' = <<>>
    /\ UNCHANGED hostVars
    /\ mouseCalls' = <<>>
    /\ emitted' = <<>>
    /\ NoCallback
    /\ UNCHANGED <<termState, serial, resizes, pushLog, pushOnly, m_mouseMode, cursorVars>>
    /\ UNCHANGED <<m_restoring, m_suppressSignals, m_replayFile>>
    /\ UNCHANGED <<selVars, ptyVars, ptySize>>
    /\ Deliver

\* The batch a replay ends with: scrollbackChanged, then contentChanged of the
\* whole screen.
ReplayDone == <<Sig("scrollbackChanged"), FullContentChanged>>

\* Mutant of ReplayTimers: a chunk call schedules no further call.
ReplayTimersNoNext(n, more) == n - 1
\* The pending calls after one ran: it used up its timer, and a call that fed a
\* chunk schedules the next one, `QTimer::singleShot(0, this, ...)`.
ReplayTimers(n, more) == IF more THEN n ELSE n - 1
\* Mutant of ReplayReturns: no early return.
ReplayReturnsNever(pending, file) == FALSE
\* `if (m_pendingLogReplay.isEmpty() && !m_replayFile) return;`
ReplayReturns(pending, file) == ~pending /\ file = NoFile

\* processLogReplay(), one call. Without a pending path and without an open
\* replay file it returns. Without an open file it begins a replay: the flags are
\* set, the terminal is reset, the file is opened (openOk) and its header skipped,
\* leaving `chunks` chunks to read. Then, in the same call, one chunk is read and
\* written to the engine, which scrolls by the line of that chunk, or, with
\* nothing left to read, the replay is completed. arg records what the call did.
processLogReplay(openOk, chunks, kind) ==
    LET begins == m_replayFile = NoFile
        idle == ReplayReturns(m_pendingLogReplay, m_replayFile)
        file == IF ~begins THEN m_replayFile ELSE IF openOk THEN chunks ELSE NoFile
        early == IF begins THEN ResetSignals ELSE <<>>
        scr == IF begins THEN BlankScreen(m_rows, m_cols) ELSE screen
        sb == IF begins THEN <<>> ELSE m_scrollback
        alt == IF begins THEN FALSE ELSE m_altScreen
        plog == IF begins THEN <<>> ELSE pushLog
        ponly == IF begins THEN TRUE ELSE pushOnly
    IN
    /\ op' = "processLogReplay"
    /\ replayTimer > 0
    /\ replayTimer' = ReplayTimers(replayTimer, file /= NoFile /\ file > 0 /\ ~idle)
    /\ fed' = IF idle THEN fed
              ELSE IF file /= NoFile /\ file > 0
              THEN Append(IF begins THEN <<>> ELSE fed, "log")
              ELSE IF begins THEN <<>> ELSE fed
    /\ UNCHANGED <<cwdVars, logVars, rtVars>>
    /\ mouseCalls' = <<>>
    /\ UNCHANGED <<maxScrollback, m_rows, m_cols, resizes>>
    /\ UNCHANGED <<selVars, ptyVars, ptySize>>
    /\ IF idle
       THEN /\ arg' = <<"idle">>
            /\ emitted' = <<>>
            /\ NoCallback
            /\ UNCHANGED <<m_scrollback, m_altScreen, screen, serial, pushLog, pushOnly,
                           m_mouseMode, cursorVars, replayVars>>
       ELSE /\ m_pendingLogReplay' = IF begins THEN FALSE ELSE m_pendingLogReplay
            /\ m_altScreen' = alt
            /\ m_mouseMode' = IF begins THEN 0 ELSE m_mouseMode
            /\ m_cursorVisible' = IF begins THEN TRUE ELSE m_cursorVisible
            /\ m_cursorBlink' = IF begins THEN FALSE ELSE m_cursorBlink
            /\ m_cursorShape' = IF begins THEN 1 ELSE m_cursorShape
            /\ UNCHANGED cursorPos
            /\ pushOnly' = ponly
            /\ IF file = NoFile
               THEN /\ arg' = <<"openFailed">>
                    /\ m_replayFile' = NoFile
                    /\ m_restoring' = FALSE
                    /\ m_suppressSignals' = FALSE
                    /\ emitted' = early
                    /\ NoCallback
                    /\ m_scrollback' = sb
                    /\ screen' = scr
                    /\ pushLog' = plog
                    /\ UNCHANGED serial
               ELSE IF file > 0
               THEN /\ serial + file <= MaxLines + 1
                    /\ arg' = <<"chunk">>
                    /\ m_replayFile' = file - 1
                    /\ m_restoring' = TRUE
                    /\ m_suppressSignals' = TRUE
                    /\ emitted' = early \o Unless(TRUE,
                            (IF PushRet(alt) = 1 THEN <<Sig("scrollbackChanged")>> ELSE <<>>)
                            \o <<ContentChanged(0, m_rows - 1, m_cols, 1)>>)
                    /\ cellsIn' = scr[1]
                    /\ cells' = scr[1]
                    /\ ret' = PushRet(alt)
                    /\ m_scrollback' = PushStore(sb, m_cols, scr[1], alt, maxScrollback)
                    /\ pushLog' = IF ponly THEN LogPush(plog, m_cols, scr[1], alt) ELSE plog
                    /\ screen' = [r \in 1..m_rows |->
                                    IF r < m_rows THEN scr[r + 1]
                                                  ELSE NewLine(serial, kind, m_cols)]
                    /\ serial' = serial + 1
               ELSE /\ arg' = <<"completed">>
                    /\ m_replayFile' = NoFile
                    /\ m_restoring' = FALSE
                    /\ m_suppressSignals' = FALSE
                    /\ emitted' = early \o ReplayDone
                    /\ NoCallback
                    /\ m_scrollback' = sb
                    /\ screen' = scr
                    /\ pushLog' = plog
                    /\ UNCHANGED serial
    /\ Deliver

\* ------------------------------------------------- KodoQuickTerm and engine
\* A step of KodoQuickTerm or of the renderer that calls no handler of the session.
SessionUntouched(name, a) ==
    /\ op' = name
    /\ arg' = a
    /\ emitted' = <<>>
    /\ mouseCalls' = <<>>
    /\ NoCallback
    /\ UNCHANGED <<maxScrollback, m_scrollback, m_rows, m_cols, m_altScreen, screen, serial,
                   resizes, pushLog, pushOnly>>
    /\ UNCHANGED <<selVars, ptySize, m_mouseMode, cursorVars, replayVars, ptyVars, hostVars>>
\* An output of the child that the engine reports through damage and moverect
\* only: no scrollback callback, the screen changed to scr, the signals sigs.
EngineOutput(name, scr, sigs) ==
    /\ op' = name
    /\ arg' = <<>>
    /\ screen' = scr
    /\ emitted' = Unless(m_suppressSignals, sigs)
    /\ mouseCalls' = <<>>
    /\ NoCallback
    /\ UNCHANGED <<maxScrollback, m_scrollback, m_rows, m_cols, m_altScreen, serial,
                   resizes, pushLog, pushOnly>>
    /\ UNCHANGED <<selVars, ptySize, m_mouseMode, cursorVars, replayVars, ptyVars, hostVars>>
    /\ Deliver

\* KodoQuickTerm::setScrollValue(value)
setScrollValue(value) ==
    LET v == Max(0, Min(value, Len(m_scrollback))) IN
    /\ attached
    /\ SessionUntouched("setScrollValue", <<>>)
    /\ attached' = attached
    /\ m_scrollValue' = v
    /\ SetRenderer(IF m_scrollValue /= v THEN SetDirtyR(Renderer) ELSE Renderer)

\* KodoTermRenderer::paint, as far as the back buffer goes.
paint ==
    /\ attached
    /\ SessionUntouched("paint", <<>>)
    /\ UNCHANGED <<attached, m_scrollValue>>
    /\ SetRenderer(IF m_dirty \/ m_backBuffer = <<>>
                   THEN RenderToBackbuffer(Renderer, m_scrollValue)
                   ELSE [Renderer EXCEPT !.draws = 0])

\* KodoTermRenderer::renderToBackbuffer(session, scrollValue), called with the
\* view's scroll position whether or not the dirty flag is set. The step records
\* whether it is the first call or a call again, right after another one.
renderToBackbuffer ==
    /\ SessionUntouched("renderToBackbuffer",
                        <<IF op = "renderToBackbuffer" THEN "again" ELSE "first">>)
    /\ UNCHANGED <<attached, m_scrollValue>>
    /\ SetRenderer(RenderToBackbuffer(Renderer, m_scrollValue))

\* KodoTermRenderer::noteDamage(rect), called directly.
noteDamage(q) ==
    /\ SessionUntouched("noteDamage", <<>>)
    /\ UNCHANGED <<attached, m_scrollValue>>
    /\ SetRenderer(NoteDamageR(Renderer, q))

\* The slot of rectMoved run on its own: KodoTermRenderer::moveRect(dest, src,
\* m_scrollValue, m_session->scrollbackSize()).
moveRect(dest, src) ==
    /\ SessionUntouched("moveRect", <<dest, src>>)
    /\ UNCHANGED <<attached, m_scrollValue>>
    /\ SetRenderer(MoveRect(Renderer, dest, src, m_scrollValue, Len(m_scrollback)))

\* The glyphs the child prints: a narrow one, and a double-width one with its
\* trailing half.
Glyph == MkCell(<<CodeOf(0, 4)>>, 0, 1)
WideGlyph == MkCell(<<CodeOf(0, 5)>>, 0, 2)
WideTrail == MkCell(<<>>, 0, 0)
\* The child prints a glyph at row r, column c: the engine reports the cells it
\* wrote through damage (onDamage).
EnginePutGlyph(r, c, wide) ==
    /\ r < m_rows /\ c + (IF wide THEN 1 ELSE 0) < m_cols
    /\ IF wide THEN screen[r + 1][c + 1].width + screen[r + 1][c + 2].width = 2
               ELSE screen[r + 1][c + 1].width = 1
    /\ EngineOutput("putGlyph",
         [screen EXCEPT ![r + 1] =
             [k \in 1..m_cols |->
                 IF k = c + 1 THEN (IF wide THEN WideGlyph ELSE Glyph)
                 ELSE IF wide /\ k = c + 2 THEN WideTrail
                 ELSE screen[r + 1][k]]],
         <<ContentChanged(c, r, IF wide THEN 2 ELSE 1, 1)>>)

\* The child erases the display (ED 2): every cell blank, the screen damaged.
EngineErase ==
    EngineOutput("erase", BlankScreen(m_rows, m_cols), <<ContentChanged(0, 0, m_cols, m_rows)>>)

\* The rectangles of cells the session reports: not empty, inside the largest
\* screen.
Rects ==
    {q \in (0..(MaxCols - 1)) \X (0..(MaxRows - 1)) \X (1..MaxCols) \X (1..MaxRows) :
        q[1] + q[3] <= MaxCols /\ q[2] + q[4] <= MaxRows}

\* The positions a host hands to setSelection - (p, p) on a press, (start, p) on a
\* drag or release: a cell of the view, or one column or row off any of its edges.
Points == [x : -1..m_cols, y : -1..(Len(m_scrollback) + m_rows)]

Next ==
    \/ EngineScroll("text")
    \/ \E buf \in EngineBuffers(m_cols) : EnginePopLine(buf)
    \/ \E b \in BOOLEAN : SetAltScreen(b)
    \/ \E r \in 0..MaxRows, c \in 0..MaxCols : resizeTerminal(r, c)
    \/ clearScrollback
    \/ resetTerminal
    \/ \E reset \in BOOLEAN : start(reset, "sh", "ok")
    \/ \E cap \in 0..MaxCap : setConfig(cap)

Spec == Init /\ [][Next]_vars

\* Resizes among engine scrolls, pops and clears, at the largest capacity.
NextResize ==
    \/ EngineScroll("text")
    \/ EnginePopLine(BlankLine(m_cols))
    \/ \E r \in 1..MaxRows, c \in 1..MaxCols : resizeTerminal(r, c)
    \/ clearScrollback
InitResize == Init /\ maxScrollback = MaxCap
SpecResize == InitResize /\ [][NextResize]_vars

\* Sizes asked of a session with and without a pty: resizes down to 0 rows or
\* columns, among starts that succeed or fail and kills.
NextSize ==
    \/ \E r \in 0..MaxRows, c \in 0..MaxCols : resizeTerminal(r, c)
    \/ \E program \in Programs, spawn \in Spawns : start(FALSE, program, spawn)
    \/ kill(TRUE, FALSE)
InitSize == \E b \in Backends : InitOn(b) /\ maxScrollback = MaxCap
SpecSize == InitSize /\ [][NextSize]_vars

\* Mouse events at a session whose engine turns mouse reporting on and off.
NextMouse ==
    \/ \E n \in MouseModes : SetMouseMode(n)
    \/ \E button \in 0..4, pressed \in BOOLEAN : sendMouse(button, pressed)
    \/ sendMouseMove
    \/ resetTerminal
    \/ EngineScroll("text")
SpecMouse == Init /\ [][NextMouse]_vars

\* A session restoring a log while the child prints and the host clears the
\* scrollback.
NextReplay ==
    \/ setRestoreLog
    \/ \E reset \in BOOLEAN : start(reset, "sh", "ok")
    \/ \E openOk \in BOOLEAN, chunks \in 0..MaxLines :
          processLogReplay(openOk, chunks, "text")
    \/ EngineScroll("text")
    \/ \E b \in BOOLEAN : SetAltScreen(b)
    \/ clearScrollback
SpecReplay == Init /\ [][NextReplay]_vars

\* A log is written and replayed, for every program name and recorded stream.
NextRoundTrip ==
    \/ writeLog
    \/ replayLog
InitRoundTrip ==
    /\ InitSession("unix")
    /\ HostIdle
    /\ rtName \in Names
    /\ rtStream \in Streams
    /\ rtFile = <<>>
    /\ rtFed = <<>>
    /\ attached = FALSE
    /\ m_scrollValue = 0
    /\ InitRenderer
SpecRoundTrip == InitRoundTrip /\ [][NextRoundTrip]_vars

\* A session started and restarted with logging switched on and off while its
\* child prints.
NextLog ==
    \/ \E b \in BOOLEAN : setConfigLogging(b)
    \/ start(FALSE, "sh", "ok")
    \/ EngineScroll("text")
SpecLog == Init /\ [][NextLog]_vars

\* The shell reports its working directory through OSC 7, among other OSC
\* strings, whole or in fragments.
NextOsc ==
    \/ \E command \in {0, 7}, initial \in BOOLEAN, final \in BOOLEAN, piece \in OscPieces :
          onOsc(command, initial, final, piece)
    \/ resetTerminal
SpecOsc == Init /\ [][NextOsc]_vars

\* KodoQuickTerm as constructed: the session connected to a renderer that has no
\* size, back buffer or cache yet.
InitAttached ==
    /\ InitSession("unix")
    /\ HostIdle
    /\ NoRoundTrip
    /\ attached = TRUE
    /\ m_scrollValue = 0
    /\ InitRenderer

\* Damage noted between renders of a view of the largest size.
NextDamage ==
    \/ \E q \in Rects : noteDamage(q)
    \/ resizeTerminal(MaxRows, MaxCols)
    \/ renderToBackbuffer
InitDamage == InitAttached /\ m_rows = MaxRows /\ m_cols = MaxCols /\ maxScrollback = MaxCap
SpecDamage == InitDamage /\ [][NextDamage]_vars

\* Renders, called whether or not anything is dirty, among output that scrolls and
\* a view that is scrolled.
NextSteady ==
    \/ resizeTerminal(MaxRows, MaxCols)
    \/ renderToBackbuffer
    \/ EngineScroll("text")
    \/ \E v \in 0..MaxCap : setScrollValue(v)
InitSteady == InitAttached /\ m_rows = MaxRows /\ m_cols = MaxCols /\ maxScrollback = MaxCap
SpecSteady == InitSteady /\ [][NextSteady]_vars

\* KodoQuickTerm in use on a view one row high: the view resized, scrolled and
\* painted while the child prints, erases and scrolls.
NextRender ==
    \/ resizeTerminal(1, MaxCols)
    \/ paint
    \/ \E v \in 0..MaxCap : setScrollValue(v)
    \/ serial <= MaxScrolls /\ EngineScroll("text")
    \/ \E c \in 0..(MaxCols - 1), wide \in BOOLEAN : EnginePutGlyph(0, c, wide)
    \/ EngineErase
InitRender == InitAttached /\ m_rows = 1 /\ m_cols = MaxCols /\ maxScrollback = 1
SpecRender == InitRender /\ [][NextRender]_vars

\* KodoQuickTerm scrolled through its history while the child scrolls lines out,
\* the view is resized and the session is restarted.
NextScroll ==
    \/ \E r \in 1..MaxRows : resizeTerminal(r, MaxCols)
    \/ \E v \in 0..MaxCap : setScrollValue(v)
    \/ serial <= MaxScrolls /\ EngineScroll("text")
    \/ \E reset \in BOOLEAN : start(reset, "sh", "ok")
InitScroll == InitAttached /\ m_cols = MaxCols /\ maxScrollback = MaxCap
SpecScroll == InitScroll /\ [][NextScroll]_vars

\* The moves the engine reports through onMoveRect: a rectangle of cells shifted
\* along one axis - rows of the whole width or of a band of columns up or down
\* (scrolling, with or without left and right margins), the rest of a row left or
\* right (inserted and deleted characters).
MovePairs ==
    {p \in Rects \X Rects :
        /\ p[1][3] = p[2][3] /\ p[1][4] = p[2][4]
        /\ (p[1][1] = p[2][1]) /= (p[1][2] = p[2][2])}
\* KodoQuickTerm on a view of the largest size while the child scrolls the screen,
\* and the slot of rectMoved run for each move the engine can report.
NextMove ==
    \/ resizeTerminal(MaxRows, MaxCols)
    \/ paint
    \/ \E v \in 0..MaxCap : setScrollValue(v)
    \/ serial <= MaxScrolls /\ EngineScroll("text")
    \/ \E p \in MovePairs : moveRect(p[1], p[2])
InitMove == InitAttached /\ m_rows = MaxRows /\ m_cols = MaxCols /\ maxScrollback = 1
SpecMove == InitMove /\ [][NextMove]_vars


\* Selections over a screen of the largest geometry as output scrolls through it.
NextSel ==
    \/ \E k \in Kinds : EngineScroll(k)
    \/ \E p \in Points : setSelection(p, p) \/ setSelection(m_selectionStart, p)
    \/ clearSelection
    \/ selectAll
InitSel == Init /\ m_rows = MaxRows /\ m_cols = MaxCols /\ maxScrollback = MaxCap
SpecSel == InitSel /\ [][NextSel]_vars

\* A restore log set and the session started several times before the timers
\* fire: processLogReplay is scheduled more often than once for one log.
NextSchedule ==
    \/ setRestoreLog
    \/ \E reset \in BOOLEAN : start(reset, "sh", "ok")
    \/ \E openOk \in BOOLEAN, chunks \in 0..MaxLines :
          processLogReplay(openOk, chunks, "text")
SpecSchedule == InitSel /\ [][NextSchedule]_vars
\* The event loop runs: a pending timer fires.
ReplayTimerFires ==
    \E openOk \in BOOLEAN, chunks \in 0..MaxLines : processLogReplay(openOk, chunks, "text")
SpecScheduleFair == SpecSchedule /\ WF_vars(ReplayTimerFires)

\* The callbacks of the engine, inside and outside a replay: the file of a replay
\* stays open between two calls of processLogReplay, and the output of the child
\* reaches the engine meanwhile.
NextSuppress ==
    \/ m_pty = "null" /\ ~m_pendingLogReplay /\ setRestoreLog
    \/ m_pty = "null" /\ start(FALSE, "sh", "ok")
    \/ \E chunks \in 0..1 : processLogReplay(TRUE, chunks, "text")
    \/ serial <= MaxScrolls + 1 /\ EngineScroll("text")
    \/ EnginePopLine(BlankLine(m_cols))
    \/ \E b \in BOOLEAN : SetAltScreen(b)
    \/ \E n \in {0, 1} : SetMouseMode(n)
    \/ \E row \in 0..(m_rows - 1), col \in 0..(m_cols - 1), v \in {0, 1} :
          onMoveCursor(row, col, v)
    \/ \E n \in {0, 1} : SetCursorProp("cursorvisible", n)
    \/ \E n \in {0, 1} : SetCursorProp("cursorblink", n)
    \/ \E n \in CursorShapes : SetCursorProp("cursorshape", n)
    \/ onOsc(7, TRUE, TRUE, "/a")
InitSuppress == Init /\ m_rows = 1 /\ m_cols = MaxCols /\ maxScrollback = 1
SpecSuppress == InitSuppress /\ [][NextSuppress]_vars

\* Selections made while the child scrolls lines out and the history is cleared.
NextSelFrame ==
    \/ EngineScroll("text")
    \/ \E p \in Points : setSelection(p, p) \/ setSelection(m_selectionStart, p)
    \/ clearScrollback
    \/ resetTerminal
SpecSelFrame == InitSel /\ [][NextSelFrame]_vars

\* The same without resizes: the geometry stays as Init chose it.
NextFixed ==
    \/ EngineScroll("text")
    \/ \E buf \in EngineBuffers(m_cols) : EnginePopLine(buf)
    \/ \E b \in BOOLEAN : SetAltScreen(b)
    \/ clearScrollback
    \/ resetTerminal
    \/ \E reset \in BOOLEAN : start(reset, "sh", "ok")
    \/ \E cap \in 0..MaxCap : setConfig(cap)
SpecFixed == Init /\ [][NextFixed]_vars

\* The pty of a session: starts and restarts, kills, the child writing and
\* exiting, and the reads of either backend.
NextPty ==
    \/ \E reset \in BOOLEAN, program \in Programs, spawn \in Spawns :
          start(reset, program, spawn)
    \/ \E dies \in BOOLEAN, drain \in BOOLEAN : kill(dies, drain)
    \/ ChildWrite
    \/ \E code \in {0, 1} : ChildExit(code)
    \/ \E atEnd \in {"eof", "eio"} : onReadyRead(atEnd)
    \/ ReaderThreadRun
    \/ onReadThreadData
InitPty ==
    /\ \E b \in Backends : InitOn(b)
    /\ m_rows = MaxRows /\ m_cols = MaxCols /\ maxScrollback = MaxCap
SpecPty == InitPty /\ [][NextPty]_vars

\* The Windows backend with kill() and the reader thread taken statement by
\* statement: a first start, the child writing and exiting, the main loop
\* delivering, and kill() against the thread's loop.
NextKill ==
    \/ \E spawn \in Spawns : m_pty = "null" /\ start(FALSE, "sh", spawn)
    \/ ChildWrite
    \/ \E code \in {0, 1} : ChildExit(code)
    \/ \E seen \in BOOLEAN : threadTest(seen)
    \/ threadReadFile
    \/ onReadThreadData
    \/ killClosePseudoConsole
    \/ killStopThread
    \/ killCloseRead
    \/ \E timedOut \in BOOLEAN : killWait(timedOut)
    \/ killJoin
    \/ killFinish
InitKill == InitOn("win") /\ m_rows = MaxRows /\ m_cols = MaxCols /\ maxScrollback = MaxCap
SpecKill == InitKill /\ [][NextKill]_vars

\* ------------------------------------------------------------------ claims
Found(cell) == [found |-> TRUE, cell |-> cell, ub |-> "none"]
sbSize == Len(m_scrollback)
\* Some getCell request, over every absolute row and every column, yields this cell.
Retrievable(cell) ==
    \E r \in 0..(sbSize + m_rows - 1), c \in 0..(MaxCols - 1) :
        LET res == getCell(r, c, BlankCell) IN res.found /\ res.cell = cell
\* Lines evicted after N pushes at capacity C: the oldest N - C.
Evicted == 1..(Len(pushLog) - maxScrollback)

\* C1: after N pushes on the primary screen from an empty store at capacity C the
\* store holds exactly min(N, C) lines, and no cell with content of the oldest
\* N - C pushed lines is returned by getCell for any row.
C1_ScrollbackBound ==
    pushOnly =>
        /\ sbSize = Min(Len(pushLog), maxScrollback)
        /\ \A k \in Evicted : \A c \in 1..Len(pushLog[k]) :
              pushLog[k][c].chars # <<>> => ~Retrievable(pushLog[k][c])
\* C1 witness: more pushes than the capacity holds, a line with content evicted.
C1_Witness ==
    /\ pushOnly /\ op = "pushScrollback" /\ maxScrollback >= 1
    /\ \E k \in Evicted : pushLog[k][1].chars # <<>>

\* C2: the store never holds more than maxScrollback lines.
C2_BoundedByMax == sbSize <= maxScrollback

\* C3 as claimed: a push on the alternate screen stores nothing, and a push on the
\* primary screen increases the scrollback size.
C3_PushAlwaysGrows ==
    [][op' = "pushScrollback" =>
          IF m_altScreen THEN m_scrollback' = m_scrollback
          ELSE Len(m_scrollback') > Len(m_scrollback)]_vars
\* C3 amended: a push on the alternate screen stores nothing and returns 0; a push
\* on the primary screen appends the line and increases the size by one exactly
\* when the store held fewer than maxScrollback lines, else leaves the size as it was.
C3_AltIsolation ==
    [][op' = "pushScrollback" =>
          IF m_altScreen THEN m_scrollback' = m_scrollback /\ ret' = 0
          ELSE /\ ret' = 1
               /\ Len(m_scrollback') =
                     IF Len(m_scrollback) < maxScrollback
                     THEN Len(m_scrollback) + 1 ELSE Len(m_scrollback)
               /\ Len(m_scrollback') > 0 =>
                     m_scrollback'[Len(m_scrollback')] = cellsIn']_vars
\* C3 witness: a push arrived on the alternate screen while the store held history.
C3_Witness == op = "pushScrollback" /\ m_altScreen /\ ret = 0 /\ sbSize > 0

\* C4: getCell(r, c) returns the cell of history row r for r below the scrollback
\* size (a blank cell past the end of a line saved at a smaller width) and the
\* live-screen cell at row r - scrollbackSize for the rows after it.
C4_AbsoluteAddressing ==
    \A g \in Garbage :
        /\ \A r \in 0..(sbSize - 1) : \A c \in 0..(MaxCols - 1) :
              getCell(r, c, g) =
                 IF c < Len(m_scrollback[r + 1])
                 THEN Found(m_scrollback[r + 1][c + 1]) ELSE Found(BlankCell)
        /\ \A r \in sbSize..(sbSize + m_rows - 1) : \A c \in 0..(m_cols - 1) :
              getCell(r, c, g) = Found(screen[r - sbSize + 1][c + 1])
\* C4 witness: after a resize, the last history row and the first live row both
\* hold content, the history row saved at a smaller width than the screen has now.
C4_Witness ==
    /\ resizes > 0 /\ sbSize > 0
    /\ Len(m_scrollback[sbSize]) < m_cols
    /\ m_scrollback[sbSize][1].chars # <<>>
    /\ screen[1][1].chars # <<>>
    /\ screen[1][1] # m_scrollback[sbSize][1]

\* A request outside the rows, or outside the columns of the row it addresses.
OutOfRange(row, col) ==
    \/ row < 0 \/ row >= sbSize + m_rows
    \/ col < 0
    \/ IF row < sbSize THEN col >= Len(m_scrollback[row + 1]) ELSE col >= m_cols
\* C5: every out-of-range request is answered "not found", without a read outside
\* the stored line or the screen.
C5_OutOfRangeNotFound ==
    \A g \in Garbage : \A row \in -1..(sbSize + m_rows), col \in -1..MaxCols :
        OutOfRange(row, col) =>
            ~getCell(row, col, g).found /\ getCell(row, col, g).ub = "none"

\* C6: after N pushes at capacity C, history row i is pushed line max(0, N-C) + i.
C6_FifoOrder ==
    pushOnly =>
        \A i \in 0..(Min(Len(pushLog), maxScrollback) - 1) :
            LET line == pushLog[Max(0, Len(pushLog) - maxScrollback) + i + 1] IN
            \A c \in 0..(Len(line) - 1) :
                getCell(i, c, BlankCell) = Found(line[c + 1])
\* C6 witness: past capacity, getCell(0, 0) is the first cell of pushed line N - C,
\* a line with content.
C6_Witness ==
    /\ pushOnly /\ Len(pushLog) > maxScrollback /\ maxScrollback >= 1
    /\ getCell(0, 0, BlankCell).cell = pushLog[Len(pushLog) - maxScrollback + 1][1]
    /\ getCell(0, 0, BlankCell).cell.chars # <<>>

\* C7 as claimed: a pop on an empty store leaves a blank line in the engine's
\* buffer, and the store empty.
C7_PopEmptyGivesBlankLine ==
    [][(op' = "popScrollback" /\ m_scrollback = <<>>) =>
          (cells' = BlankLine(m_cols) /\ m_scrollback' = <<>>)]_vars
\* C7 amended: a pop on an empty store returns 0 and leaves the engine's buffer
\* as it was handed over (no line is given; the blank fill is the engine's), and
\* the store empty.
C7_PopEmptyReturnsNothing ==
    [][(op' = "popScrollback" /\ m_scrollback = <<>>) =>
          (ret' = 0 /\ cells' = cellsIn' /\ m_scrollback' = <<>>)]_vars
\* C7 witness: a pop came back empty-handed with the buffer still holding old cells.
C7_Witness ==
    /\ op = "popScrollback" /\ ret = 0 /\ sbSize = 0
    /\ cellsIn = StaleLine(m_cols) /\ cells = cellsIn

\* C8: the selection (A, B) and the selection (B, A), A # B, give the same
\* selectedText() and the same isSelected(row, col) for every cell.
C8_SelectionNormalization ==
    m_selectionStart # m_selectionEnd =>
        /\ \A g \in Garbage :
              SelectedTextFor(m_selectionStart, m_selectionEnd, g)
                 = SelectedTextFor(m_selectionEnd, m_selectionStart, g)
        /\ \A row \in -1..(sbSize + m_rows), col \in -1..m_cols :
              IsSelectedFor(m_selectionStart, m_selectionEnd, row, col)
                 = IsSelectedFor(m_selectionEnd, m_selectionStart, row, col)
\* C8 witness: a selection given end first, on one row, with text in it.
C8_Witness ==
    /\ op = "setSelection"
    /\ m_selectionStart.y = m_selectionEnd.y
    /\ m_selectionStart.x > m_selectionEnd.x /\ m_selectionEnd.x >= 0
    /\ Len(selectedText(BlankCell)) >= 2

\* The content of the cell at (row, col); nothing when there is no such cell.
CellTextAt(row, col) ==
    IF OutOfRange(row, col) THEN <<>>
    ELSE IF row < sbSize THEN m_scrollback[row + 1][col + 1].chars
    ELSE screen[row - sbSize + 1][col + 1].chars
\* C9: for a zero-width selection selectedText() is the content of the one cell at
\* that position, empty when the cell is blank or there is none.
C9_ZeroWidthSingleCell ==
    \A g \in Garbage :
        m_selectionStart = m_selectionEnd =>
            selectedText(g) = CellTextAt(m_selectionStart.y, m_selectionStart.x)

\* No readyRead follows a finished among the signals of the current PtyProcess.
NoReadyReadAfterFinished ==
    \A i, j \in 1..Len(events) :
        (i < j /\ events[i].sig = "finished") => events[j].sig /= "readyRead"

\* C10: every PtyProcess whose start succeeded emits finished exactly once, when
\* its reader meets end-of-file or a read error, and no readyRead after it, on
\* both backends, killed or replaced by a restart included; a child that exits
\* at once with code 0 and no output yields one finished(0, ...) and no readyRead.
C10_FinishedExactlyOnce ==
    /\ NumFinished(events) <= 1
    /\ (m_pty = "started" /\ eof) => NumFinished(events) = 1
    /\ ~lostFinished
    /\ NoReadyReadAfterFinished
    /\ (m_pty = "started" /\ eof /\ child = "exit0" /\ written = 0) =>
           \E status \in {-1, 0} : events = <<Finished(0, status)>>

\* The bytes the child of the current PtyProcess produced, in order.
Produced == [i \in 1..written |-> i]
IsPrefix(a, b) == Len(a) <= Len(b) /\ a = SubSeq(b, 1, Len(a))

\* C11: the chunks fed to the VT engine are, end to end, the bytes the child
\* produced in the order it produced them: what was fed, what is posted to the
\* main loop and what is still in the pty make up the produced bytes exactly, with
\* nothing reordered, lost or repeated, on either backend.
C11_ByteOrdering ==
    /\ IsPrefix(VtInput(events), Produced)
    /\ VtInput(events) \o Flatten(queue) \o pipe = Produced
\* Two chunks went through the reader thread and the queued handoff, one by one.
C11_Witness ==
    /\ backend = "win"
    /\ Len(events) >= 2
    /\ VtInput(events) = <<1, 2>>
    /\ op = "onReadThreadData"

\* What the last start() returned: the session keeps a started PtyProcess
\* exactly when PtyProcess::start returned true.
StartReturnedTrue == m_pty = "started"

\* C12: start returns false whenever no program is configured or the spawn
\* fails, a program that cannot be executed included, and true only when a child
\* running the configured program is attached to the pty.
C12_SpawnFailureReported ==
    op = "start" => (StartReturnedTrue <=> child = "alive")

\* C13: a start that returns false retains nothing: the session holds no
\* PtyProcess afterwards (isRunning() is false), scrollback and screen are as
\* before the call, and no descriptor, pipe or pseudo console is held.
C13_FailedStartRetainsNothing ==
    [][(op' = "start" /\ ~StartReturnedTrue') =>
          /\ ~isRunning'
          /\ m_scrollback' = m_scrollback /\ screen' = screen /\ m_altScreen' = m_altScreen
          /\ m_masterFd' = -1
          /\ ~m_hPC' /\ ~m_hPipeIn' /\ ~m_hPipeOut']_vars

\* C14: kill() on the Windows backend unblocks an in-flight blocking read, so
\* that the reader thread can leave its loop, and when kill() returns the reader
\* thread is no longer running, for every interleaving of kill() with the loop.
C14_KillUnblocksReader ==
    /\ (killPc \in {"stop", "closeIn", "wait", "join"} /\ m_readerThread = "running"
            /\ readPc = "blocked")
          => ReadFileReturns(pipe, m_hPC, m_hPipeIn, child)
    /\ (op = "kill" /\ killPc = "idle") => m_readerThread = "none"
\* kill() is waiting, the child still alive, for a thread that was blocked in its
\* read and has left its loop on the read failing.
C14_Witness ==
    /\ killPc = "wait"
    /\ child = "alive"
    /\ m_readerThread = "done"
    /\ eof
    /\ op = "ReaderThread::ReadFile"

\* The step emits a readyRead.
EmitsReadyRead ==
    Len(events') = Len(events) + 1 /\ events'[Len(events')].sig = "readyRead"

\* C15: after kill() returns the pty's handles are released on both backends -
\* the master descriptor and its read watch, the pseudo console and the pipes -
\* and the pty produces no further readyRead.
C15_KillReleasesHandles ==
    [][/\ (op' = "kill" /\ m_pty' /= "null") =>
              /\ m_masterFd' = -1 /\ m_notifier' /= "enabled"
              /\ ~m_hPC' /\ ~m_hPipeIn' /\ ~m_hPipeOut'
       /\ (op = "kill" /\ m_pty /= "null") => ~EmitsReadyRead]_vars

\* C16: start(reset = false) leaves the scrollback lines and the screen as they
\* were, start(reset = true) empties the scrollback and resets the screen; either
\* way the previous PtyProcess is destroyed before the new one is made, and the
\* session never owns more than one.
C16_RestartSemantics ==
    /\ [](ptyObjects <= 1)
    /\ [][op' = "start" =>
             IF arg'[1]
             THEN m_scrollback' = <<>> /\ screen' = BlankScreen(m_rows, m_cols)
                  /\ ~m_altScreen'
             ELSE m_scrollback' = m_scrollback /\ screen' = screen
                  /\ m_altScreen' = m_altScreen]_vars
\* A restart that keeps a non-empty scrollback.
C16_Witness ==
    /\ op = "start" /\ ~arg[1]
    /\ lostFinished
    /\ m_scrollback /= <<>>
    /\ ptyObjects = 1

Clamp(n) == IF n <= 0 THEN 1 ELSE n

\* C17: resizeTerminal(rows, cols) clamps each dimension to at least 1, does
\* nothing when the clamped size is the current one, and otherwise sets rows()
\* and cols() to the clamped values and gives exactly that size to the pty;
\* rows() >= 1 and cols() >= 1 in every reachable state.
C17_ResizeClamps ==
    /\ [](m_rows >= 1 /\ m_cols >= 1)
    /\ [][op' = "resizeTerminal" =>
             LET rows == Clamp(arg'[1])
                 cols == Clamp(arg'[2])
             IN  IF rows = m_rows /\ cols = m_cols
                 THEN UNCHANGED <<termState, selVars, ptyVars, ptySize>>
                 ELSE /\ m_rows' = rows /\ m_cols' = cols
                      /\ Len(screen') = rows /\ Len(screen'[1]) = cols
                      /\ (m_pty /= "null" /\ PtyOpen) =>
                             ptySize' = [rows |-> rows, cols |-> cols]]_vars
\* A resize to 0 rows of a session with a running child, taken as 1 row.
C17_Witness ==
    /\ op = "resizeTerminal" /\ arg[1] = 0
    /\ m_pty = "started"
    /\ m_rows = 1 /\ m_cols = MaxCols
    /\ ptySize = [rows |-> 1, cols |-> MaxCols]

\* C18: sendMouse and sendMouseMove forward an event to the engine only while
\* mouseMode /= 0; while mouseMode = 0, which it is after resetTerminal, they make
\* no engine call and change no session state.
C18_MouseOnlyWhenReporting ==
    [][/\ op' \in {"sendMouse", "sendMouseMove"} =>
            /\ mouseCalls' /= <<>> => m_mouseMode /= 0
            /\ m_mouseMode = 0 =>
                  /\ mouseCalls' = <<>>
                  /\ UNCHANGED <<termState, selVars, ptyVars, ptySize, replayVars,
                                 m_mouseMode>>
       /\ op' = "resetTerminal" => m_mouseMode' = 0]_vars
\* A mouse press dropped while reporting is off, with output in the scrollback.
C18_Witness ==
    /\ op = "sendMouse"
    /\ m_mouseMode = 0
    /\ mouseCalls = <<>>
    /\ m_scrollback /= <<>>

\* C19: while the session is Replaying, from the processLogReplay call that
\* begins a replay until the one that completes it, no change notification is
\* emitted: a step that leaves the session Replaying emits nothing.
C19_NoSignalsWhileReplaying == [][m_restoring' => emitted' = <<>>]_vars
\* The same of the steps after the call that began the replay, and of the engine
\* callbacks alone.
C19_NoSignalsAfterBegin == [][m_restoring /\ m_restoring' => emitted' = <<>>]_vars
C19_CallbacksSuppressed ==
    [][m_restoring' /\ op' \in {"pushScrollback", "onSetTermProp"} => emitted' = <<>>]_vars
C19_ChunksSuppressed ==
    [][m_restoring /\ op' = "processLogReplay" /\ arg' = <<"chunk">> => emitted' = <<>>]_vars

\* C20: the processLogReplay call that completes a replay emits exactly one
\* scrollbackChanged and one contentChanged of the whole screen, in this order
\* and nothing else, and leaves the session not Replaying.
C20_CompletionBatch ==
    [][op' = "processLogReplay" /\ arg' = <<"completed">> =>
          /\ emitted' = ReplayDone
          /\ ~m_restoring'
          /\ ~m_suppressSignals'
          /\ m_replayFile' = NoFile]_vars
\* The same of a replay that an earlier call began.
C20_CompletionBatchLater ==
    [][m_restoring /\ op' = "processLogReplay" /\ arg' = <<"completed">> =>
          /\ emitted' = ReplayDone
          /\ ~m_restoring'
          /\ ~m_suppressSignals'
          /\ m_replayFile' = NoFile]_vars

\* C21: a restore log is not replayed into an undersized terminal: the call that
\* begins a replay (resets the terminal, opens the log, feeds the engine) finds
\* more than the minimum number of columns.
BeginsReplay == op' = "processLogReplay" /\ m_replayFile = NoFile /\ arg' /= <<"idle">>
C21_NoReplayWhenUndersized == [][BeginsReplay => m_cols > MinReplayCols]_vars

\* C22: between the start of a replay and its completion the engine receives
\* exactly the logged bytes, whatever the child that was started prints meanwhile.
C22_ReplayFeedsOnlyTheLog ==
    [][op' = "processLogReplay" /\ arg' = <<"completed">> =>
          \A i \in 1..Len(fed') : fed'[i] = "log"]_vars

\* C24: when the restore log cannot be opened the replay aborts silently: no
\* notification, nothing fed to the engine, screen and scrollback as they were
\* before the attempt, the session not Replaying and not suppressing.
C24_OpenFailureIsSilent ==
    [][op' = "processLogReplay" /\ arg' = <<"openFailed">> =>
          /\ emitted' = <<>>
          /\ fed' = <<>>
          /\ UNCHANGED <<screen, m_scrollback>>
          /\ ~m_restoring'
          /\ ~m_suppressSignals']_vars
\* Its parts.
C24_StateKept ==
    [][op' = "processLogReplay" /\ arg' = <<"openFailed">> =>
          UNCHANGED <<screen, m_scrollback>>]_vars
C24_LeavesReplaying ==
    [][op' = "processLogReplay" /\ arg' = <<"openFailed">> =>
          fed' = <<>> /\ ~m_restoring' /\ ~m_suppressSignals' /\ m_replayFile' = NoFile]_vars

\* C23: a log written by a session and then replayed feeds the engine exactly the
\* recorded stream: all of it, and nothing of the header.
C23_LogReplayRoundTrip == op = "replayLog" => rtFed = rtStream
\* The same for program names that hold no sentinel text and fit the header limit.
C23_RoundTripPlainName ==
    (/\ op = "replayLog"
     /\ \A i \in 1..Len(rtName) : rtName[i] /= "LOG_START_MARKER"
     /\ Len(LogHeader(rtName)) <= HeaderLimit + 1) => rtFed = rtStream

\* C29: every start with logging enabled opens a new log file for that run; the
\* file begins with a header that records Program, Arguments and CWD and ends
\* with the sentinel line, and after it holds only bytes of that run's child.
C29_HeaderRecordsAll ==
    \A i \in 1..Len(logFiles) :
        HeaderFields(logFiles[i]) = {"Program: ", "Arguments: ", "CWD: "}
C29_HeaderEndsWithSentinel ==
    \A i \in 1..Len(logFiles) :
        \E n \in 2..Len(logFiles[i]) :
            /\ logFiles[i][n - 1] = "LOG_START_MARKER"
            /\ logFiles[i][n] = LF
            /\ SubSeq(logFiles[i], 1, n) = LogHeader(<<"sh">>)
C29_NewFilePerStart ==
    [][op' = "start" /\ enableLogging =>
          /\ Len(logFiles') = Len(logFiles) + 1
          /\ m_logFile' = Len(logFiles')
          /\ logFiles'[m_logFile'] = LogHeader(<<"sh">>)]_vars
C29_OnlyOwnBytes == [][logFiles' /= logFiles /\ op' = "pushScrollback" => logOwner]_vars
C29_LogPerRun ==
    /\ [](C29_HeaderRecordsAll /\ C29_HeaderEndsWithSentinel)
    /\ C29_NewFilePerStart
    /\ C29_OnlyOwnBytes

\* C25: the fragments of an OSC 7 report are buffered until the final one, and
\* cwdChanged is emitted only if the directory differs from the one known before.
CwdChangedEmitted == \E i \in 1..Len(emitted') : emitted'[i].sig = "cwdChanged"
C25_CwdIdempotent ==
    [][op' = "onOsc" =>
          /\ CwdChangedEmitted => m_cwd' /= m_cwd
          /\ ~arg'[2] => emitted' = <<>> /\ m_cwd' = m_cwd]_vars
\* Its parts: nothing happens before the final fragment; a directory that
\* differs is always announced.
C25_FragmentsBuffered ==
    [][op' = "onOsc" /\ ~arg'[2] => emitted' = <<>> /\ m_cwd' = m_cwd]_vars
C25_ChangeAnnounced ==
    [][op' = "onOsc" /\ m_cwd' /= m_cwd => CwdChangedEmitted]_vars

\* ---------------------------------------------------------------------- C26
\* d contains q.
Contains(d, q) ==
    /\ d.start_row <= Top(q) /\ Bottom(q) <= d.end_row
    /\ d.start_col <= Left(q) /\ Right(q) <= d.end_col
\* d is the bounding box of q1 and q2: it contains both, and each of its edges is
\* an edge of one of them.
IsBoundingBox(d, q1, q2) ==
    /\ Contains(d, q1) /\ Contains(d, q2)
    /\ d.start_row \in {Top(q1), Top(q2)}
    /\ d.start_col \in {Left(q1), Left(q2)}
    /\ d.end_row \in {Bottom(q1), Bottom(q2)}
    /\ d.end_col \in {Right(q1), Right(q2)}
\* C26: when two rectangles R1, R2 have been noted since the dirty rectangle was
\* empty, the dirty rectangle is the bounding box of R1 and R2, and it is the
\* rectangle that noting R2 first and R1 second gives.
C26_DamageCoalescing ==
    (Len(noted) = 2 /\ EverythingRect \notin {noted[1], noted[2]}) =>
        /\ IsBoundingBox(m_dirtyRect, noted[1], noted[2])
        /\ m_dirtyRect = NoteDamage(NoteDamage(EmptyDirtyRect, noted[2]), noted[1])
        /\ m_dirty
\* Two rectangles were noted, neither containing the other, so that the dirty
\* rectangle is larger than both.
C26_Witness ==
    /\ op = "noteDamage"
    /\ Len(noted) = 2
    /\ EverythingRect \notin {noted[1], noted[2]}
    /\ m_dirtyRect /= NoteDamage(EmptyDirtyRect, noted[1])
    /\ m_dirtyRect /= NoteDamage(EmptyDirtyRect, noted[2])

\* ---------------------------------------------------------------------- C27
\* The cell of the live screen at index i of the caches.
ScreenAt(i) == screen[((i - 1) \div m_cols) + 1][((i - 1) % m_cols) + 1]
\* C27, as stated: every renderToBackbuffer call leaves the dirty rectangle empty
\* and the dirty flag cleared, and a call right after another one, with nothing
\* changed in between, performs no draw operation.
C27_SteadyState ==
    op = "renderToBackbuffer" =>
        /\ m_dirtyRect = EmptyDirtyRect
        /\ ~m_dirty
        /\ arg = <<"again">> => draws = 0
\* C27, amended: a renderToBackbuffer call on a renderer that has a back buffer
\* leaves the dirty rectangle empty and the dirty flag cleared; a call right after
\* another one performs no draw operation when the cache is used, that is with the
\* view at the live bottom and the renderer's geometry that of the session.
C27_SteadyStateAtBottom ==
    op = "renderToBackbuffer" =>
        /\ m_backBuffer /= <<>> => (m_dirtyRect = EmptyDirtyRect /\ ~m_dirty)
        /\ (arg = <<"again">> /\ UseCache(Renderer, m_scrollValue)) => draws = 0
\* A second call in a row at the live bottom of a view with history, the first
\* having drawn and cached the screen's cells.
C27_Witness ==
    /\ op = "renderToBackbuffer"
    /\ arg = <<"again">>
    /\ UseCache(Renderer, m_scrollValue)
    /\ Len(m_scrollback) > 0
    /\ m_backBuffer /= <<>>
    /\ \A i \in DOMAIN m_cellCache : m_cellCache[i] = ScreenAt(i)
    /\ screen[1][1] /= BlankCell
    /\ draws = 0

\* ---------------------------------------------------------------------- C30
\* A cache entry that a render can find equal to a cell.
ValidEntry(c) == c.chars = <<>> \/ c.chars[1] /= -1
\* The cache is consulted: there is a back buffer, the view is at the live bottom
\* and the renderer's geometry is the session's.
CacheConsulted == m_backBuffer /= <<>> /\ UseCache(Renderer, m_scrollValue)
\* What the back buffer shows at index i when it shows the live screen: the cell
\* there, or the second column of the double-width cell before it.
ScreenPix(i) ==
    IF ScreenAt(i).width = 0 /\ (i - 1) % m_cols > 0
    THEN Pix(ScreenAt(i - 1), isSelected(m_scrollValue + ((i - 1) \div m_cols), ((i - 1) % m_cols) - 1), 1)
    ELSE Pix(ScreenAt(i), isSelected(m_scrollValue + ((i - 1) \div m_cols), (i - 1) % m_cols), 0)
\* C30, first part: whenever the cache is consulted, every valid entry of
\* cellCache/selectedCache describes what the back buffer shows at that cell.
C30_CacheDescribesBackbuffer ==
    CacheConsulted =>
        \A i \in DOMAIN m_cellCache :
            ValidEntry(m_cellCache[i]) =>
                m_backBuffer[i] = Pix(m_cellCache[i], m_selectedCache[i], 0)
\* C30, second part: a paint that consulted the cache leaves no stale pixels - the
\* back buffer shows the live screen.
C30_NoStalePixels ==
    (op = "paint" /\ CacheConsulted) =>
        \A i \in DOMAIN m_backBuffer : m_backBuffer[i] = ScreenPix(i)
\* C30: render-cache coherence, both parts.
C30_RenderCacheCoherence == C30_CacheDescribesBackbuffer /\ C30_NoStalePixels

\* ---------------------------------------------------------------------- C28
\* Index i of the caches lies in the rectangle q of cells.
InRect(i, q) ==
    /\ (i - 1) \div rendCols >= Top(q) /\ (i - 1) \div rendCols <= Bottom(q)
    /\ (i - 1) % rendCols >= Left(q) /\ (i - 1) % rendCols <= Right(q)
\* The index in src that moves to index i of dest.
SrcIndex(i, dest, src) == i + ((Top(src) - Top(dest)) * rendCols) + (Left(src) - Left(dest))
\* C28, first part: a moveRect with the view not at the live bottom changes
\* nothing - back buffer, both caches, dirty rectangle, dirty flag.
C28_OnlyAtLiveBottom ==
    [][(op' = "moveRect" /\ m_scrollValue /= Len(m_scrollback)) =>
          UNCHANGED <<m_backBuffer, m_cellCache, m_selectedCache, m_dirtyRect, m_dirty>>]_vars
\* C28, second part: an applied moveRect shifts exactly the slice of the moved
\* region - the entries of dest become the entries src had, every entry outside
\* dest is unchanged - in cellCache and in selectedCache.
C28_ShiftsExactSlice ==
    [][(op' = "moveRect" /\ m_scrollValue = Len(m_scrollback) /\ m_backBuffer /= <<>>) =>
          \A i \in DOMAIN m_cellCache :
              IF InRect(i, arg'[1])
              THEN /\ m_cellCache'[i] = m_cellCache[SrcIndex(i, arg'[1], arg'[2])]
                   /\ m_selectedCache'[i] = m_selectedCache[SrcIndex(i, arg'[1], arg'[2])]
              ELSE /\ m_cellCache'[i] = m_cellCache[i]
                   /\ m_selectedCache'[i] = m_selectedCache[i]]_vars
\* C28, third part: an applied moveRect leaves the source and the destination
\* inside the dirty rectangle, the dirty flag set.
C28_MarksBothDamaged ==
    [][(op' = "moveRect" /\ m_scrollValue = Len(m_scrollback) /\ m_backBuffer /= <<>>) =>
          /\ Contains(m_dirtyRect', arg'[1])
          /\ Contains(m_dirtyRect', arg'[2])
          /\ m_dirty']_vars
\* C28: the three parts together.
C28_MoveRectFrame == C28_OnlyAtLiveBottom /\ C28_ShiftsExactSlice /\ C28_MarksBothDamaged

\* ---------------------------------------------------------------------- C31
\* The cell the view shows at index i of the caches, at the view's scroll position.
ViewCell(i) ==
    LET res == getCell(m_scrollValue + ((i - 1) \div rendCols), (i - 1) % rendCols, BlankCell)
    IN IF res.found THEN res.cell ELSE BlankCell
\* A render that did not use the cache: there is a back buffer, and the view is
\* scrolled back or the geometries differ.
RenderedWithoutCache ==
    op = "renderToBackbuffer" /\ m_backBuffer /= <<>> /\ ~UseCache(Renderer, m_scrollValue)
\* C31, first part: a render that does not use the cache redraws the whole visible
\* region - the back buffer shows every cell of the view.
C31_FullRedraw ==
    RenderedWithoutCache =>
        \A i \in DOMAIN m_backBuffer :
            ViewCell(i).width = 1 =>
                m_backBuffer[i] = Pix(ViewCell(i), isSelected(m_scrollValue + ((i - 1) \div rendCols),
                                                              (i - 1) % rendCols), 0)
\* C31, second part: that render repopulates the cache with the cells it drew.
C31_CacheRepopulated ==
    RenderedWithoutCache =>
        \A i \in DOMAIN m_cellCache : ViewCell(i).width = 1 => m_cellCache[i] = ViewCell(i)
\* C31: a render away from the live bottom redraws everything and treats the cache
\* as write-only.
C31_WriteOnlyPass == C31_FullRedraw /\ C31_CacheRepopulated

\* ---------------------------------------------------------------------- C32
\* The step pushed a line into the scrollback of a connected view that was at the
\* live bottom, and scrollbackChanged reached the view.
PushedAtBottom ==
    /\ attached
    /\ op' = "pushScrollback" /\ ret' = 1
    /\ \E k \in DOMAIN emitted' : emitted'[k].sig = "scrollbackChanged"
    /\ m_scrollValue = Len(m_scrollback)
\* C32: a view at the live bottom before a line is pushed into the scrollback is at
\* the live bottom after scrollbackChanged was handled.
C32_FollowBottom ==
    [][PushedAtBottom => m_scrollValue' = Len(m_scrollback')]_vars
\* The same for a store at its capacity, whose size the push does not change.
C32_FollowBottomAtCapacity ==
    [][(PushedAtBottom /\ Len(m_scrollback) = maxScrollback) =>
          m_scrollValue' = Len(m_scrollback')]_vars

\* ---------------------------------------------------------------------- C33
\* C33: the scroll position of a connected view is a line of the history or the
\* live bottom - 0 <= scrollValue <= scrollbackSize.
C33_ScrollValueInHistory ==
    attached => (0 <= m_scrollValue /\ m_scrollValue <= Len(m_scrollback))
\* The lower bound alone.
C33_ScrollValueNotNegative == attached => 0 <= m_scrollValue

\* ---------------------------------------------------------------------- C34
\* Lines the scroll step evicted from the head of the store.
EvictedByStep == Len(m_scrollback) + ret' - Len(m_scrollback')
\* The line at absolute row a before a scroll step is still retained after it: not
\* evicted and, where the push was refused, not the top row of the screen.
Retained(a) ==
    IF ret' = 1 THEN a - EvictedByStep >= 0
    ELSE a /= Len(m_scrollback)
\* The absolute row at which that line is found after the step.
NewRow(a) ==
    IF ret' = 1 THEN a - EvictedByStep
    ELSE IF a < Len(m_scrollback) THEN a ELSE a - 1
\* C34, first part: after a scroll event every retained content line is selected
\* in the columns in which it was selected before.
C34_SelectionFollowsContent ==
    [][op' = "pushScrollback" =>
          \A a \in 0..(Len(m_scrollback) + m_rows - 1), c \in 0..(m_cols - 1) :
              Retained(a) =>
                  (IsSelectedFor(m_selectionStart, m_selectionEnd, a, c)
                     <=> IsSelectedFor(m_selectionStart', m_selectionEnd', NewRow(a), c))]_vars
\* The same for a push into a store below its capacity, which moves no line.
C34_FollowsBelowCapacity ==
    [][(op' = "pushScrollback" /\ ret' = 1 /\ EvictedByStep = 0) =>
          \A a \in 0..(Len(m_scrollback) + m_rows - 1), c \in 0..(m_cols - 1) :
              IsSelectedFor(m_selectionStart, m_selectionEnd, a, c)
                 <=> IsSelectedFor(m_selectionStart', m_selectionEnd', NewRow(a), c)]_vars
\* The endpoints of a selection address rows of the history or the screen.
EndpointsInRange(s, e, sb) ==
    (s.x /= -1 /\ e.x /= -1) =>
        /\ s.y >= 0 /\ s.y < Len(sb) + m_rows
        /\ e.y >= 0 /\ e.y < Len(sb) + m_rows
\* C34, second part: clearScrollback and resetTerminal leave the endpoints of a
\* selection that addressed rows of the view addressing rows of the view.
C34_EndpointsInRange ==
    [][(op' \in {"clearScrollback", "resetTerminal"}
          /\ EndpointsInRange(m_selectionStart, m_selectionEnd, m_scrollback)) =>
          EndpointsInRange(m_selectionStart', m_selectionEnd', m_scrollback')]_vars
\* C34: both parts.
C34_SelectionDenotesContent == C34_SelectionFollowsContent /\ C34_EndpointsInRange

\* ---------------------------------------------------------------------- C35
\* C35, first part: a popScrollback right after a pushScrollback that stored a
\* line (primary screen, maxScrollback >= 1), with the same column count, hands
\* back exactly the cells pushed and removes that line from the tail.
C35_PopReturnsPushed ==
    [][(op = "pushScrollback" /\ ret = 1 /\ maxScrollback >= 1 /\ op' = "popScrollback") =>
          /\ ret' = 1
          /\ cells' = cells
          /\ m_scrollback' = SubSeq(m_scrollback, 1, Len(m_scrollback) - 1)]_vars
\* C35, second part: a push into a store below its capacity leaves a store from
\* which the pop takes the pushed line and leaves the store as it was before.
C35_StoreRestored ==
    [][(op' = "pushScrollback" /\ ret' = 1 /\ Len(m_scrollback) < maxScrollback) =>
          /\ PopCells(m_scrollback', m_cols, BlankLine(m_cols)) = cells'
          /\ PopStore(m_scrollback') = m_scrollback]_vars
\* C35, third part: a pop hands back the cells of the newest saved line, and with
\* more columns than the line has, blank cells of width 1 in the remainder.
C35_PopPadsWithBlanks ==
    [][(op' = "popScrollback" /\ ret' = 1) =>
          \A i \in 1..m_cols :
              cells'[i] = IF i <= Len(m_scrollback[Len(m_scrollback)])
                          THEN m_scrollback[Len(m_scrollback)][i]
                          ELSE MkCell(<<>>, 0, 1)]_vars
\* C35: the push/pop round trip.
C35_PushPopRoundTrip == C35_PopReturnsPushed /\ C35_StoreRestored /\ C35_PopPadsWithBlanks
\* A line of text popped back whole while older lines stay in the store.
C35_Witness ==
    /\ op = "popScrollback" /\ ret = 1
    /\ \A i \in 1..m_cols : cells[i].chars /= <<>>
    /\ m_cols = MaxCols
    /\ Len(m_scrollback) >= 1
\* A line popped back into a screen wider than the line: text, then padding.
C35_WitnessPadded ==
    /\ op = "popScrollback" /\ ret = 1
    /\ m_cols > 1
    /\ cells[1].chars /= <<>>
    /\ cells[m_cols] = BlankCell

\* ---------------------------------------------------------------------- C36
\* What the callbacks of the engine leave in the session.
CallbackState ==
    <<m_scrollback, m_cursorRow, m_cursorCol, m_cursorVisible, m_cursorBlink, m_cursorShape,
      m_altScreen, m_mouseMode, m_cwd>>
\* C36, the callbacks that write fields: the state a callback leaves is given by
\* the state before it and its arguments alone, with and without suppression.
C36_FieldsIgnoreSuppression ==
    [][/\ op' = "onMoveCursor" =>
             /\ m_cursorRow' = arg'[1] /\ m_cursorCol' = arg'[2]
             /\ m_cursorVisible' = (arg'[3] /= 0)
             /\ UNCHANGED <<m_scrollback, m_cursorBlink, m_cursorShape, m_altScreen,
                            m_mouseMode, m_cwd>>
       /\ op' = "onSetTermProp" =>
             /\ m_cursorVisible' = IF arg'[1] = "cursorvisible" THEN arg'[2] /= 0
                                   ELSE m_cursorVisible
             /\ m_cursorBlink' = IF arg'[1] = "cursorblink" THEN arg'[2] /= 0
                                 ELSE m_cursorBlink
             /\ m_cursorShape' = IF arg'[1] = "cursorshape" THEN arg'[2] ELSE m_cursorShape
             /\ m_altScreen' = IF arg'[1] = "altscreen" THEN arg'[2] /= 0 ELSE m_altScreen
             /\ m_mouseMode' = IF arg'[1] = "mouse" THEN arg'[2] ELSE m_mouseMode
             /\ UNCHANGED <<m_scrollback, m_cursorRow, m_cursorCol, m_cwd>>
       /\ op' = "onOsc" =>
             /\ m_cwd' = IF arg'[1] = 7 /\ arg'[2] /\ OscResolves(m_oscBuffer')
                         THEN OscPath(m_oscBuffer') ELSE m_cwd
             /\ UNCHANGED <<m_scrollback, cursorVars, m_altScreen, m_mouseMode>>]_vars
\* C36, the scrollback callbacks: a push on the primary screen appends the line
\* handed in and drops the oldest line beyond the capacity, a pop removes the
\* newest line, with and without suppression.
C36_ScrollbackIgnoresSuppression ==
    [][/\ op' = "pushScrollback" =>
             /\ ret' = (IF m_altScreen THEN 0 ELSE 1)
             /\ m_scrollback' =
                   IF m_altScreen THEN m_scrollback
                   ELSE IF Len(m_scrollback) + 1 > maxScrollback
                   THEN Tail(Append(m_scrollback, cells'))
                   ELSE Append(m_scrollback, cells')
             /\ UNCHANGED <<cursorVars, m_altScreen, m_mouseMode, m_cwd>>
       /\ op' = "popScrollback" =>
             /\ ret' = (IF m_scrollback = <<>> THEN 0 ELSE 1)
             /\ m_scrollback' = SubSeq(m_scrollback, 1, Len(m_scrollback) - 1)
             /\ UNCHANGED <<cursorVars, m_altScreen, m_mouseMode, m_cwd>>]_vars
\* C36, the notifications: a suppressed callback emits nothing, and no callback
\* changes the suppression.
C36_SuppressedEmitsNothing ==
    [][op' \in {"onMoveCursor", "onSetTermProp", "onOsc", "pushScrollback", "popScrollback"} =>
          /\ m_suppressSignals => emitted' = <<>>
          /\ m_suppressSignals' = m_suppressSignals]_vars
\* C36: suppression changes what is emitted, never the state reached.
C36_SuppressionOnlySilences ==
    C36_FieldsIgnoreSuppression /\ C36_ScrollbackIgnoresSuppression /\ C36_SuppressedEmitsNothing
\* A suppressed cursor callback that moved and hid the cursor without a signal.
C36_Witness ==
    /\ m_suppressSignals /\ m_replayFile /= NoFile
    /\ op = "onMoveCursor" /\ emitted = <<>>
    /\ m_cursorCol = 1 /\ ~m_cursorVisible
\* A suppressed push that stored a line without a signal.
C36_WitnessPush ==
    /\ m_suppressSignals /\ op = "pushScrollback" /\ ret = 1 /\ emitted = <<>>
    /\ m_scrollback /= <<>> /\ m_scrollback[Len(m_scrollback)] = cells
\* The same cursor callback outside a replay, with its signal.
C36_WitnessLoud ==
    /\ ~m_suppressSignals /\ op = "onMoveCursor" /\ emitted /= <<>>
    /\ m_cursorCol = 1 /\ ~m_cursorVisible

\* ---------------------------------------------------------------------- C37
\* C37, the reset: a call resets the terminal only when it begins a replay, which
\* takes a pending log and clears it; a call that finds the file open resets
\* nothing.
C37_ResetOnce ==
    [][op' = "processLogReplay" =>
          /\ BeginsReplay => m_pendingLogReplay /\ ~m_pendingLogReplay'
          /\ (m_replayFile /= NoFile /\ arg' = <<"completed">>) =>
                UNCHANGED <<screen, m_scrollback>>
          /\ (m_replayFile /= NoFile /\ arg' = <<"chunk">>) =>
                Len(m_scrollback') >= Len(m_scrollback)]_vars
\* C37, the chunks: every call that feeds the engine feeds the next chunk of the
\* file, one, and the replay completes only with nothing left to read.
C37_ChunksOnceInOrder ==
    [][op' = "processLogReplay" =>
          /\ (arg' = <<"chunk">> /\ m_replayFile /= NoFile) =>
                /\ m_replayFile > 0
                /\ m_replayFile' = m_replayFile - 1
                /\ fed' = Append(fed, "log")
          /\ (arg' = <<"chunk">> /\ m_replayFile = NoFile) => fed' = <<"log">>
          /\ (arg' = <<"completed">> /\ m_replayFile /= NoFile) =>
                m_replayFile = 0 /\ fed' = fed
          /\ arg' \in {<<"idle">>, <<"openFailed">>} => fed' = fed \/ fed' = <<>>]_vars
\* C37, the completion: the call that completes a replay ends its emissions with
\* the completion batch and closes the file; a later chunk call emits nothing;
\* a call with no log pending and no file open does nothing at all.
C37_CompletionOnce ==
    [][op' = "processLogReplay" =>
          /\ arg' = <<"completed">> =>
                /\ Len(emitted') >= Len(ReplayDone)
                /\ SubSeq(emitted', Len(emitted') - Len(ReplayDone) + 1, Len(emitted'))
                      = ReplayDone
                /\ m_replayFile /= NoFile => emitted' = ReplayDone
                /\ m_replayFile' = NoFile
          /\ (arg' = <<"chunk">> /\ m_replayFile /= NoFile) => emitted' = <<>>
          /\ (m_replayFile = NoFile /\ ~m_pendingLogReplay) =>
                /\ arg' = <<"idle">>
                /\ emitted' = <<>>
                /\ UNCHANGED <<termState, fed, replayVars>>]_vars
\* C37: a replay scheduled more than once runs once.
C37_RobustToRescheduling == C37_ResetOnce /\ C37_ChunksOnceInOrder /\ C37_CompletionOnce
\* Two timers pending while the file is open and a chunk has been fed.
C37_Witness ==
    /\ replayTimer >= 2
    /\ m_replayFile /= NoFile
    /\ op = "processLogReplay" /\ arg = <<"chunk">>
    /\ fed /= <<>>
\* The second timer fires after the replay was completed: the call returns.
C37_WitnessLateTimer ==
    /\ op = "processLogReplay" /\ arg = <<"idle">>
    /\ fed /= <<>> /\ m_replayFile = NoFile /\ ~m_restoring

\* ---------------------------------------------------------------------- C38
\* C38, progress: a replay whose file is open ends: the file closed and released,
\* the session neither restoring nor suppressing.
C38_OpenReplayEnds ==
    (m_replayFile /= NoFile) ~> (m_replayFile = NoFile /\ ~m_restoring /\ ~m_suppressSignals)
\* C38, the flags: notifications are suppressed, and the session is restoring,
\* only while a replay file is open, and a timer is pending while it is.
C38_SuppressedOnlyWhileOpen ==
    /\ m_suppressSignals => m_replayFile /= NoFile
    /\ m_restoring => m_replayFile /= NoFile
    /\ m_replayFile /= NoFile => m_suppressSignals /\ m_restoring /\ replayTimer > 0
\* C38, a replay that ends in the call that began it (the open failed, or the log
\* holds nothing after its header) leaves no flag set and no file open.
C38_EndsInOneCall ==
    [][(BeginsReplay /\ arg' \in {<<"openFailed">>, <<"completed">>}) =>
          m_replayFile' = NoFile /\ ~m_restoring' /\ ~m_suppressSignals']_vars
\* C38: every replay that begins ends.
C38_ReplayEnds == C38_OpenReplayEnds /\ [](C38_SuppressedOnlyWhileOpen) /\ C38_EndsInOneCall
\* A replay of several chunks that an earlier call began has been completed.
C38_Witness ==
    /\ op = "processLogReplay" /\ arg = <<"completed">>
    /\ Len(fed) >= 2
    /\ m_replayFile = NoFile /\ ~m_restoring /\ ~m_suppressSignals
\* A replay under way.
C38_WitnessOpen == m_replayFile /= NoFile /\ m_replayFile > 0 /\ m_suppressSignals /\ fed /= <<>>

\* ---------------------------------------------------------------------- C39
\* C39, before the first start isRunning() is false.
C39_FalseBeforeFirstStart == ptyObjects = 0 => ~isRunning
\* C39, after a start that returned true isRunning() is true.
C39_TrueAfterStart == (op = "start" /\ m_pty = "started") => isRunning
\* C39, after a start that returned false isRunning() is false.
C39_FalseAfterFailedStart == (op = "start" /\ m_pty /= "started") => ~isRunning
\* C39, after kill() isRunning() is false.
C39_FalseAfterKill == op = "kill" => ~isRunning
\* C39, once the child has finished isRunning() is false.
C39_FalseAfterFinished == NumFinished(events) > 0 => ~isRunning
\* C39: isRunning() reflects the state machine of the session.
C39_IsRunningReflectsState ==
    /\ C39_FalseBeforeFirstStart
    /\ C39_TrueAfterStart
    /\ C39_FalseAfterFailedStart
    /\ C39_FalseAfterKill
    /\ C39_FalseAfterFinished

====
